---- MODULE Spec2Model ----
(***************************************************************************)
(* A model of the piecewise-linear segment algebra of ilass-core           *)
(* (src/ilass-core/src/segments.rs) and of the audio decoding front end    *)
(* of ilass-cli (src/ilass-cli/src/video_decoder.rs and                    *)
(* src/ilass-cli/src/video_decoder/ffmpeg_binary.rs).                      *)
(*                                                                         *)
(* A signal is a start point and a vector of segments (the buffers of the  *)
(* code).  Every specification below draws its input signals in Init from  *)
(* the bounded sets of well-formed signals defined here and then runs one  *)
(* pipeline of the code on them: each call of a next(), push(), finish()   *)
(* or of a whole-buffer method is one action.  The segments an iterator    *)
(* returns are appended to out, the vector its consumer collects.          *)
(*                                                                         *)
(* sig1 and sig2 keep the inputs as they were handed over; the code never  *)
(* reads them again, the properties do.                                    *)
(*                                                                         *)
(* crate::rating_type and crate::time_types are not part of the sources    *)
(* kept here: Rating, RatingDelta and TimeDelta are integers, add_mul and  *)
(* div_by_delta_to_i64 follow their documented meaning.                    *)
(***************************************************************************)
EXTENDS Integers, Sequences, FiniteSets, TLC

VARIABLES
    sig1,          \* first input signal, as handed over: [start, buffer]
    sig2,          \* second input signal, as handed over (None when there is none)
    epsilon,       \* the epsilon handed to save_aggressively_simplified (0 when unused)
    input_iter1,   \* what is left of the first input's iterator (a sequence)
    input_iter2,   \* what is left of the second input's iterator
    iter,          \* Option of the iterator the pipeline runs (the struct's fields)
    out,           \* the items returned (pull) or collected (push) so far, in order
    ret,           \* Option of the value a whole-buffer method returned
    pc,            \* "start": not constructed, "iter": running, "done": returned None
    panic,         \* "" or the message of the panic that aborted the run
    env,           \* what a run of the audio decoder is given (None in a segment pipeline)
    child,         \* the decode process and what it has done so far (None when there is none)
    receiver,      \* the calls the AudioReceiver handed over has received, in order
    progress,      \* the calls the ProgressHandler handed over has received, in order
    samples        \* the samples the caller has handed to push_samples so far, in order

\* the state of the segment pipelines and the state of the audio decoder
segment_vars == <<sig1, sig2, epsilon, input_iter1, input_iter2, out>>
decoder_vars == <<env, child, receiver, progress, samples>>

vars == <<sig1, sig2, epsilon, input_iter1, input_iter2, iter, out, ret, pc, panic, env, child, receiver, progress, samples>>

----------------------------------------------------------------------------
(* Bounds of the model *)

\* longest signal, in time units
MaxLen == 3
\* most segments of the input signal of a one-input operator
MaxSegs == 3
\* most segments of each input signal of a two-input operator
MaxPairSegs == 2
\* ratings of input segments lie in -RMax .. RMax
RMax == 1
\* deltas of input segments lie in -DMax .. DMax
DMax == 1
\* offsets of input segments lie in 0 .. OMax
OMax == 1
\* epsilon lies in 0 .. EMax
EMax == 1

Starts == {-1, 0}
Ratings == (0 - RMax) .. RMax
Deltas == (0 - DMax) .. DMax
Offsets == 0 .. OMax
Epsilons == 0 .. EMax

RatingInfos == [rating : Ratings, delta : Deltas]
OffsetInfos == [offset : Offsets, drag : BOOLEAN]
DualInfos == [offset_info : OffsetInfos, rating_info : RatingInfos]

----------------------------------------------------------------------------
(* Option<T> *)

None == <<>>
Some(x) == <<x>>

----------------------------------------------------------------------------
(* rating_type / time_types arithmetic *)

\* Rating::add_mul(r, rd, td) = r + rd * td
add_mul(r, rd, td) == r + rd * td

\* RatingDelta::div_by_delta_to_i64: the floored quotient
div_by_delta_to_i64(r, rd) == IF rd > 0 THEN r \div rd ELSE (0 - r) \div (0 - rd)

\* i64 division of Rust: the quotient truncated towards zero (b > 0)
TruncDiv(a, b) == IF a >= 0 THEN a \div b ELSE 0 - ((0 - a) \div b)

Min(a, b) == IF a <= b THEN a ELSE b
Max(a, b) == IF a >= b THEN a ELSE b

----------------------------------------------------------------------------
(* PointSpan, OffsetInfo, RatingInfo, DualInfo *)

\* PointSpan::new asserts start < end.  The callers below build spans from the
\* end points of well-formed inputs and from switch points their own
\* assertions have checked, so the assertion is not carried into the model.
PointSpan_new(start, end) == [start |-> start, end |-> end]
PointSpan_len(span) == span.end - span.start
PointSpan_half(span) == TruncDiv(span.end + span.start, 2)

OffsetInfo_constant(offset) == [offset |-> offset, drag |-> FALSE]
\* (an end_offset that forgets the drag)
OffsetInfo_end_offset_fixed(oi, span_length) == oi.offset
OffsetInfo_end_offset(oi, span_length) == IF oi.drag THEN oi.offset + (span_length - 1) ELSE oi.offset
\* (an exclusive_end_offset that forgets the drag)
OffsetInfo_exclusive_end_offset_fixed(oi, span_length) == oi.offset
OffsetInfo_exclusive_end_offset(oi, span_length) == IF oi.drag THEN oi.offset + span_length ELSE oi.offset
\* (an advanced_offset that forgets the drag)
OffsetInfo_advanced_offset_still(oi, time_delta) == oi.offset
OffsetInfo_advanced_offset(oi, time_delta) == IF oi.drag THEN oi.offset + time_delta ELSE oi.offset
OffsetInfo_advanced(oi, time_delta) == IF oi.drag THEN [offset |-> oi.offset + time_delta, drag |-> TRUE] ELSE [offset |-> oi.offset, drag |-> FALSE]

RatingInfo_constant(rating) == [rating |-> rating, delta |-> 0]
RatingInfo_get_at(ri, len) == add_mul(ri.rating, ri.delta, len)
RatingInfo_advanced(ri, len) == [rating |-> add_mul(ri.rating, ri.delta, len), delta |-> ri.delta]
\* (an end_rating that is off by one: the rating one past the last point)
RatingInfo_end_rating_past(ri, len) == add_mul(ri.rating, ri.delta, len)
RatingInfo_end_rating(ri, len) == add_mul(ri.rating, ri.delta, len - 1)
\* (an exclusive_end_rating that is off by one: the rating of the last point)
RatingInfo_exclusive_end_rating_last(ri, len) == add_mul(ri.rating, ri.delta, len - 1)
RatingInfo_exclusive_end_rating(ri, len) == add_mul(ri.rating, ri.delta, len)

DualInfo_advanced(di, len) == [offset_info |-> OffsetInfo_advanced(di.offset_info, len), rating_info |-> RatingInfo_advanced(di.rating_info, len)]

\* RatingSegment::advance and DualSegment::advance (in place)
\* (a RatingSegment::advance that leaves the segment where it was)
RatingSegment_advance_stale(seg, delta) == seg
RatingSegment_advance(seg, delta) == [seg EXCEPT !.data = RatingInfo_advanced(seg.data, delta)]
\* (a DualSegment::advance that advances the rating only)
DualSegment_advance_rating_only(seg, delta) == [seg EXCEPT !.data.rating_info = RatingInfo_advanced(seg.data.rating_info, delta)]
DualSegment_advance(seg, delta) == [seg EXCEPT !.data = DualInfo_advanced(seg.data, delta)]

\* Segment::with_start_point
Segment_with_start_point(seg, start_point) == [span |-> PointSpan_new(start_point, seg.end_point), data |-> seg.data]

----------------------------------------------------------------------------
(* The input signals *)

\* the strictly increasing sequences of n end points that end at s + len
EndSeqs(s, len, n) == {e \in [1 .. n -> (s + 1) .. (s + len)] : e[n] = s + len /\ \A i \in 1 .. (n - 1) : e[i] < e[i + 1]}

\* the signal that starts at s, with end points e and data d
Signal(s, e, d) == [start |-> s, buffer |-> [i \in DOMAIN e |-> [end_point |-> e[i], data |-> d[i]]]]

\* a rating signal with the offset info oi attached to every segment
WithOffsets(sig, oi) == [start |-> sig.start, buffer |-> [i \in DOMAIN sig.buffer |-> [end_point |-> sig.buffer[i].end_point, data |-> [offset_info |-> oi, rating_info |-> sig.buffer[i].data]]]]

\* the end of a non-empty signal
SignalEnd(sig) == sig.buffer[Len(sig.buffer)].end_point

\* annotate_with_segment_start_points: every segment with the end of the one before it
annotate_with_segment_start_points(sig) == [i \in DOMAIN sig.buffer |-> Segment_with_start_point(sig.buffer[i], IF i = 1 THEN sig.start ELSE sig.buffer[i - 1].end_point)]

\* Vec::into_iter().next()
IterNext(it) == IF it = <<>> THEN None ELSE Some(Head(it))
IterRest(it) == IF it = <<>> THEN it ELSE Tail(it)

----------------------------------------------------------------------------
(* The value of a signal at a point (what the properties speak about) *)

\* the index of the segment of buffer b (a signal starting at s) that holds t
SegAt(s, b, t) == CHOOSE i \in DOMAIN b : t < b[i].end_point /\ t >= (IF i = 1 THEN s ELSE b[i - 1].end_point)
SegStart(s, b, i) == IF i = 1 THEN s ELSE b[i - 1].end_point

\* rating and offset at t of a signal of segments without start points
RatingAt(sig, t) == LET i == SegAt(sig.start, sig.buffer, t) IN sig.buffer[i].data.rating + sig.buffer[i].data.delta * (t - SegStart(sig.start, sig.buffer, i))
DualRatingAt(sig, t) == LET i == SegAt(sig.start, sig.buffer, t) IN sig.buffer[i].data.rating_info.rating + sig.buffer[i].data.rating_info.delta * (t - SegStart(sig.start, sig.buffer, i))
DualOffsetAt(sig, t) == LET i == SegAt(sig.start, sig.buffer, t) oi == sig.buffer[i].data.offset_info IN IF oi.drag THEN oi.offset + (t - SegStart(sig.start, sig.buffer, i)) ELSE oi.offset

\* rating and offset at t of a full segment (one with its span)
FullRating(seg, t) == seg.data.rating_info.rating + seg.data.rating_info.delta * (t - seg.span.start)
FullOffset(seg, t) == IF seg.data.offset_info.drag THEN seg.data.offset_info.offset + (t - seg.span.start) ELSE seg.data.offset_info.offset

\* the largest member of a non-empty set of integers
SetMax(S) == CHOOSE x \in S : \A y \in S : y <= x

\* the points of a signal and the largest rating of a dual signal up to t
SignalPoints(sig) == sig.start .. (SignalEnd(sig) - 1)
RunningMax(sig, t) == SetMax({DualRatingAt(sig, u) : u \in sig.start .. t})

\* the data of a signal at t: its segment's data advanced to t
DualDataAt(sig, t) == LET i == SegAt(sig.start, sig.buffer, t) IN DualInfo_advanced(sig.buffer[i].data, t - SegStart(sig.start, sig.buffer, i))
FullDataAt(seg, t) == DualInfo_advanced(seg.data, t - seg.span.start)

\* the points of a full segment
Points(seg) == seg.span.start .. (seg.span.end - 1)

\* the full segments tile [s, e): no gap, no overlap, no empty span
Tiles(full, s, e) ==
    /\ full # <<>>
    /\ full[1].span.start = s
    /\ full[Len(full)].span.end = e
    /\ \A i \in DOMAIN full : full[i].span.start < full[i].span.end
    /\ \A i \in 1 .. (Len(full) - 1) : full[i].span.end = full[i + 1].span.start

----------------------------------------------------------------------------
(* RatingAdderIterator2: DualIterator::add_ratings_from *)

RatingAdderIterator2_generate_segment(self, segment_end) ==
    [span |-> PointSpan_new(self.segment_start, segment_end),
     data |-> [offset_info |-> self.dual_seg1.data.offset_info,
               rating_info |-> [rating |-> self.dual_seg1.data.rating_info.rating + self.dual_seg2.data.rating,
                                delta |-> self.dual_seg1.data.rating_info.delta + self.dual_seg2.data.delta]]]

\* the constructor; n1, n2 are what the first next() of each input returns
add_ratings_from(start1, start2, n1, n2) ==
    IF start1 # start2 THEN [self |-> None, panic |-> "assertion failed: self.start == iter2.start"]
    ELSE IF n1 = None THEN [self |-> None, panic |-> "First iterator should have at least one element"]
    ELSE IF n2 = None THEN [self |-> None, panic |-> "Second iterator should have at least one element"]
    ELSE [self |-> Some([segment_start |-> start1, dual_seg1 |-> n1[1], dual_seg2 |-> n2[1], finished |-> FALSE]), panic |-> ""]

\* which inputs a call of next() pulls from
AdderPulls1(self) == ~self.finished /\ self.dual_seg1.end_point <= self.dual_seg2.end_point
AdderPulls2(self) == ~self.finished /\ self.dual_seg2.end_point <= self.dual_seg1.end_point

\* (a next() that takes an exhausted input for the end of both)
RatingAdderIterator2_next_lenient(self, n1, n2) ==
    [self |-> [self EXCEPT !.finished = TRUE],
     item |-> IF self.finished THEN None ELSE Some(RatingAdderIterator2_generate_segment(self, Min(self.dual_seg1.end_point, self.dual_seg2.end_point))),
     panic |-> ""]

\* next(); n1, n2 are what input_iter1.next(), input_iter2.next() return when called
RatingAdderIterator2_next(self, n1, n2) ==
    IF self.finished THEN [self |-> self, item |-> None, panic |-> ""]
    ELSE IF self.dual_seg1.end_point < self.dual_seg2.end_point THEN
        LET len == self.dual_seg1.end_point - self.segment_start
            result == RatingAdderIterator2_generate_segment(self, self.dual_seg1.end_point)
        IN  IF n1 = None THEN [self |-> self, item |-> None, panic |-> "RatingAdderIterator: First iterator ended before second"]
            ELSE [self |-> [self EXCEPT !.segment_start = self.dual_seg1.end_point,
                                        !.dual_seg1 = n1[1],
                                        !.dual_seg2 = RatingSegment_advance(self.dual_seg2, len)],
                  item |-> Some(result), panic |-> ""]
    ELSE IF self.dual_seg2.end_point < self.dual_seg1.end_point THEN
        LET len == self.dual_seg2.end_point - self.segment_start
            result == RatingAdderIterator2_generate_segment(self, self.dual_seg2.end_point)
        IN  IF n2 = None THEN [self |-> self, item |-> None, panic |-> "RatingAdderIterator: Second iterator ended before first"]
            ELSE [self |-> [self EXCEPT !.segment_start = self.dual_seg2.end_point,
                                        !.dual_seg1 = DualSegment_advance(self.dual_seg1, len),
                                        !.dual_seg2 = n2[1]],
                  item |-> Some(result), panic |-> ""]
    ELSE
        LET result == RatingAdderIterator2_generate_segment(self, self.dual_seg1.end_point)
        IN  IF n1 # None /\ n2 # None THEN
                [self |-> [self EXCEPT !.segment_start = self.dual_seg1.end_point, !.dual_seg1 = n1[1], !.dual_seg2 = n2[1]],
                 item |-> Some(result), panic |-> ""]
            ELSE IF n1 # None THEN [self |-> self, item |-> None, panic |-> "RatingAdderIterator: Second iterator ended before first"]
            ELSE IF n2 # None THEN [self |-> self, item |-> None, panic |-> "RatingAdderIterator: First iterator ended before second"]
            ELSE [self |-> [self EXCEPT !.finished = TRUE], item |-> Some(result), panic |-> ""]

\* the caller's side of a call that returned r: collect the item, or stop
Returned(r) ==
    /\ out' = IF r.item = None THEN out ELSE Append(out, r.item[1])
    /\ panic' = r.panic
    /\ pc' = IF r.panic # "" THEN "panic" ELSE IF r.item = None THEN "done" ELSE "iter"

\* nothing of the run has happened yet
Fresh == iter = None /\ out = <<>> /\ ret = None /\ pc = "start" /\ panic = "" /\ env = None /\ child = None /\ receiver = <<>> /\ progress = <<>> /\ samples = <<>>

\* the two inputs of a pointwise operator, each with its iterator at the start
TwoInputs(a, b) == sig1 = a /\ sig2 = Some(b) /\ input_iter1 = a.buffer /\ input_iter2 = b.buffer

InitAdd ==
    /\ \E len \in 1 .. MaxLen : \E n1 \in 1 .. Min(MaxPairSegs, len), n2 \in 1 .. Min(MaxPairSegs, len) :
         \E e1 \in EndSeqs(0, len, n1), e2 \in EndSeqs(0, len, n2), d1 \in [1 .. n1 -> RatingInfos], d2 \in [1 .. n2 -> RatingInfos], oi \in OffsetInfos :
            TwoInputs(WithOffsets(Signal(0, e1, d1), oi), Signal(0, e2, d2))
    /\ epsilon = 0
    /\ Fresh

AddRatingsFrom ==
    /\ pc = "start"
    /\ LET n1 == IF sig1.start = sig2[1].start THEN IterNext(input_iter1) ELSE None
           n2 == IF sig1.start = sig2[1].start /\ n1 # None THEN IterNext(input_iter2) ELSE None
           r == add_ratings_from(sig1.start, sig2[1].start, n1, n2)
       IN  /\ iter' = r.self
           /\ input_iter1' = IF n1 # None THEN IterRest(input_iter1) ELSE input_iter1
           /\ input_iter2' = IF n2 # None THEN IterRest(input_iter2) ELSE input_iter2
           /\ panic' = r.panic
           /\ pc' = IF r.panic # "" THEN "panic" ELSE "iter"
    /\ UNCHANGED <<decoder_vars, sig1, sig2, epsilon, out, ret>>

AdderNext ==
    /\ pc = "iter"
    /\ LET self == iter[1]
           n1 == IF AdderPulls1(self) THEN IterNext(input_iter1) ELSE None
           n2 == IF AdderPulls2(self) THEN IterNext(input_iter2) ELSE None
           r == RatingAdderIterator2_next(self, n1, n2)
       IN  /\ iter' = Some(r.self)
           /\ input_iter1' = IF AdderPulls1(self) THEN IterRest(input_iter1) ELSE input_iter1
           /\ input_iter2' = IF AdderPulls2(self) THEN IterRest(input_iter2) ELSE input_iter2
           /\ Returned(r)
    /\ UNCHANGED <<decoder_vars, sig1, sig2, epsilon, ret>>

NextAdd == AddRatingsFrom \/ AdderNext

SpecAdd == InitAdd /\ [][NextAdd]_vars

\* C1: every segment add_ratings_from returns has, at every point of its span,
\* the rating A(t) + B(t) of the two inputs, and once the iterator is exhausted
\* the returned segments tile [start, end), so the sum holds at every t there.
C1_AddIsPointwiseSum ==
    /\ \A i \in DOMAIN out : \A t \in out[i].span.start .. (out[i].span.end - 1) : FullRating(out[i], t) = DualRatingAt(sig1, t) + RatingAt(sig2[1], t)
    /\ pc = "done" => Tiles(out, sig1.start, SignalEnd(sig1))

\* a run in which each input was split by the other one's segment end
C1_Witness == pc = "done" /\ Len(out) = 3 /\ out[3].data.rating_info.delta # 0 /\ Len(sig1.buffer) = 2 /\ Len(sig2[1].buffer) = 2

----------------------------------------------------------------------------
(* CombinedMaximumDualIterator: combined_maximum_of_dual_iterators *)

\* (a get_switch_point that lacks the + 1)
get_switch_point_early(start_rating1, start_rating2, delta1, delta2) == div_by_delta_to_i64(start_rating2 - start_rating1, delta1 - delta2)

\* (a get_switch_point one point too far)
get_switch_point_late(start_rating1, start_rating2, delta1, delta2) == div_by_delta_to_i64(start_rating2 - start_rating1, delta1 - delta2) + 2

get_switch_point(start_rating1, start_rating2, delta1, delta2) == div_by_delta_to_i64(start_rating2 - start_rating1, delta1 - delta2) + 1

\* (a generate_maximum_segments that never looks at the second input)
CombinedMaximum_first_only(self, len, segment_end) ==
    [segment |-> [span |-> PointSpan_new(self.segment_start, segment_end), data |-> self.dual_seg1.data], stored_segment |-> None, panic |-> ""]

\* the segment to return, the segment to store for the next call, or the
\* assertion that failed
CombinedMaximumDualIterator_generate_maximum_segments(self, len, segment_end) ==
    LET start_rating1 == self.dual_seg1.data.rating_info.rating
        start_rating2 == self.dual_seg2.data.rating_info.rating
        end_rating1 == RatingInfo_end_rating(self.dual_seg1.data.rating_info, len)
        end_rating2 == RatingInfo_end_rating(self.dual_seg2.data.rating_info, len)
        delta1 == self.dual_seg1.data.rating_info.delta
        delta2 == self.dual_seg2.data.rating_info.delta
    IN  IF start_rating1 >= start_rating2 /\ end_rating1 >= end_rating2 THEN
            [segment |-> [span |-> PointSpan_new(self.segment_start, segment_end), data |-> self.dual_seg1.data], stored_segment |-> None, panic |-> ""]
        ELSE IF start_rating1 <= start_rating2 /\ end_rating1 <= end_rating2 THEN
            [segment |-> [span |-> PointSpan_new(self.segment_start, segment_end), data |-> self.dual_seg2.data], stored_segment |-> None, panic |-> ""]
        ELSE
            LET spoint == get_switch_point(start_rating1, start_rating2, delta1, delta2)
                first == IF start_rating1 > start_rating2 /\ end_rating1 < end_rating2 THEN self.dual_seg1.data ELSE self.dual_seg2.data
                second == IF start_rating1 > start_rating2 /\ end_rating1 < end_rating2 THEN self.dual_seg2.data ELSE self.dual_seg1.data
            IN  IF ~(0 < spoint) THEN [segment |-> None, stored_segment |-> None, panic |-> "assertion failed: 0 < spoint"]
                ELSE IF ~(spoint < len) THEN [segment |-> None, stored_segment |-> None, panic |-> "assertion failed: spoint < len.as_i64()"]
                ELSE [segment |-> [span |-> PointSpan_new(self.segment_start, self.segment_start + spoint), data |-> first],
                      stored_segment |-> Some([span |-> PointSpan_new(self.segment_start + spoint, segment_end), data |-> DualInfo_advanced(second, spoint)]),
                      panic |-> ""]

\* the constructor; n1, n2 are what the first next() of each input returns
combined_maximum_of_dual_iterators(start1, start2, n1, n2) ==
    IF start1 # start2 THEN [self |-> None, panic |-> "assertion failed: iter1.start == iter2.start"]
    ELSE IF n1 = None THEN [self |-> None, panic |-> "First iterator should have at least one element"]
    ELSE IF n2 = None THEN [self |-> None, panic |-> "Second iterator should have at least one element"]
    ELSE [self |-> Some([stored_segment |-> None, segment_start |-> start1, dual_seg1 |-> n1[1], dual_seg2 |-> n2[1], finished |-> FALSE]), panic |-> ""]

\* a call of next() gets past the stored segment, the finished flag and the two assertions
CMaxRuns(self) == self.stored_segment = None /\ ~self.finished /\ self.segment_start < self.dual_seg1.end_point /\ self.segment_start < self.dual_seg2.end_point
\* which inputs a call of next() pulls from
CMaxPulls1(self) == CMaxRuns(self) /\ self.dual_seg1.end_point <= self.dual_seg2.end_point
CMaxPulls2(self) == CMaxRuns(self) /\ self.dual_seg2.end_point <= self.dual_seg1.end_point

\* next(); n1, n2 are what input_iter1.next(), input_iter2.next() return when called
CombinedMaximumDualIterator_next(self, n1, n2) ==
    IF self.stored_segment # None THEN [self |-> [self EXCEPT !.stored_segment = None], item |-> self.stored_segment, panic |-> ""]
    ELSE IF self.finished THEN [self |-> self, item |-> None, panic |-> ""]
    ELSE IF ~(self.segment_start < self.dual_seg1.end_point) THEN [self |-> self, item |-> None, panic |-> "assertion failed: self.segment_start < self.dual_seg1.end_point"]
    ELSE IF ~(self.segment_start < self.dual_seg2.end_point) THEN [self |-> self, item |-> None, panic |-> "assertion failed: self.segment_start < self.dual_seg2.end_point"]
    ELSE IF self.dual_seg1.end_point < self.dual_seg2.end_point THEN
        LET len == self.dual_seg1.end_point - self.segment_start
            g == CombinedMaximumDualIterator_generate_maximum_segments(self, len, self.dual_seg1.end_point)
        IN  IF g.panic # "" THEN [self |-> self, item |-> None, panic |-> g.panic]
            ELSE IF n1 = None THEN [self |-> self, item |-> None, panic |-> "CombinedMaximumDualIterator: First iterator ended before second"]
            ELSE [self |-> [self EXCEPT !.stored_segment = g.stored_segment,
                                        !.segment_start = self.dual_seg1.end_point,
                                        !.dual_seg1 = n1[1],
                                        !.dual_seg2 = DualSegment_advance(self.dual_seg2, len)],
                  item |-> Some(g.segment), panic |-> ""]
    ELSE IF self.dual_seg2.end_point < self.dual_seg1.end_point THEN
        LET len == self.dual_seg2.end_point - self.segment_start
            g == CombinedMaximumDualIterator_generate_maximum_segments(self, len, self.dual_seg2.end_point)
        IN  IF g.panic # "" THEN [self |-> self, item |-> None, panic |-> g.panic]
            ELSE IF n2 = None THEN [self |-> self, item |-> None, panic |-> "CombinedMaximumDualIterator: Second iterator ended before first"]
            ELSE [self |-> [self EXCEPT !.stored_segment = g.stored_segment,
                                        !.segment_start = self.dual_seg2.end_point,
                                        !.dual_seg1 = DualSegment_advance(self.dual_seg1, len),
                                        !.dual_seg2 = n2[1]],
                  item |-> Some(g.segment), panic |-> ""]
    ELSE
        LET len == self.dual_seg1.end_point - self.segment_start
            g == CombinedMaximumDualIterator_generate_maximum_segments(self, len, self.dual_seg1.end_point)
        IN  IF n1 # None /\ n2 = None THEN [self |-> self, item |-> None, panic |-> "CombinedMaximumDualIterator: Second iterator ended before first"]
            ELSE IF n1 = None /\ n2 # None THEN [self |-> self, item |-> None, panic |-> "CombinedMaximumDualIterator: First iterator ended before second"]
            ELSE IF g.panic # "" THEN [self |-> self, item |-> None, panic |-> g.panic]
            ELSE IF n1 # None THEN
                [self |-> [self EXCEPT !.stored_segment = g.stored_segment, !.segment_start = self.dual_seg1.end_point, !.dual_seg1 = n1[1], !.dual_seg2 = n2[1]],
                 item |-> Some(g.segment), panic |-> ""]
            ELSE [self |-> [self EXCEPT !.stored_segment = g.stored_segment, !.finished = TRUE], item |-> Some(g.segment), panic |-> ""]

InitCMax ==
    /\ \E len \in 1 .. MaxLen : \E n1 \in 1 .. Min(MaxPairSegs, len), n2 \in 1 .. Min(MaxPairSegs, len) :
         \E e1 \in EndSeqs(0, len, n1), e2 \in EndSeqs(0, len, n2), d1 \in [1 .. n1 -> RatingInfos], d2 \in [1 .. n2 -> RatingInfos], oi1 \in OffsetInfos, oi2 \in OffsetInfos :
            TwoInputs(WithOffsets(Signal(0, e1, d1), oi1), WithOffsets(Signal(0, e2, d2), oi2))
    /\ epsilon = 0
    /\ Fresh

CombinedMaximumOfDualIterators ==
    /\ pc = "start"
    /\ LET n1 == IF sig1.start = sig2[1].start THEN IterNext(input_iter1) ELSE None
           n2 == IF sig1.start = sig2[1].start /\ n1 # None THEN IterNext(input_iter2) ELSE None
           r == combined_maximum_of_dual_iterators(sig1.start, sig2[1].start, n1, n2)
       IN  /\ iter' = r.self
           /\ input_iter1' = IF n1 # None THEN IterRest(input_iter1) ELSE input_iter1
           /\ input_iter2' = IF n2 # None THEN IterRest(input_iter2) ELSE input_iter2
           /\ panic' = r.panic
           /\ pc' = IF r.panic # "" THEN "panic" ELSE "iter"
    /\ UNCHANGED <<decoder_vars, sig1, sig2, epsilon, out, ret>>

CMaxNext ==
    /\ pc = "iter"
    /\ LET self == iter[1]
           n1 == IF CMaxPulls1(self) THEN IterNext(input_iter1) ELSE None
           n2 == IF CMaxPulls2(self) THEN IterNext(input_iter2) ELSE None
           r == CombinedMaximumDualIterator_next(self, n1, n2)
       IN  /\ iter' = Some(r.self)
           /\ input_iter1' = IF CMaxPulls1(self) THEN IterRest(input_iter1) ELSE input_iter1
           /\ input_iter2' = IF CMaxPulls2(self) THEN IterRest(input_iter2) ELSE input_iter2
           /\ Returned(r)
    /\ UNCHANGED <<decoder_vars, sig1, sig2, epsilon, ret>>

NextCMax == CombinedMaximumOfDualIterators \/ CMaxNext

SpecCMax == InitCMax /\ [][NextCMax]_vars

\* the first and the last point of the span around t on which neither input changes segment
SpanFirst(t) == Max(SegStart(sig1.start, sig1.buffer, SegAt(sig1.start, sig1.buffer, t)), SegStart(sig2[1].start, sig2[1].buffer, SegAt(sig2[1].start, sig2[1].buffer, t)))
SpanLast(t) == Min(sig1.buffer[SegAt(sig1.start, sig1.buffer, t)].end_point, sig2[1].buffer[SegAt(sig2[1].start, sig2[1].buffer, t)].end_point) - 1

\* C5: every segment combined_maximum_of_dual_iterators returns has, at every
\* point t of its span, the rating max(A(t), B(t)) and the offset at t of an
\* input whose rating at t is that maximum; once the iterator is exhausted the
\* returned segments tile [start, end).
C5_CombinedMaximumIsPointwiseMax ==
    /\ \A i \in DOMAIN out : \A t \in Points(out[i]) :
        /\ FullRating(out[i], t) = Max(DualRatingAt(sig1, t), DualRatingAt(sig2[1], t))
        /\ \/ FullOffset(out[i], t) = DualOffsetAt(sig1, t) /\ DualRatingAt(sig1, t) = FullRating(out[i], t)
           \/ FullOffset(out[i], t) = DualOffsetAt(sig2[1], t) /\ DualRatingAt(sig2[1], t) = FullRating(out[i], t)
    /\ pc = "done" => Tiles(out, sig1.start, SignalEnd(sig1))

\* a finished run in which each input is strictly above the other somewhere and
\* the two carry different offsets
C5_Witness ==
    /\ pc = "done" /\ Len(out) >= 3
    /\ \E t \in sig1.start .. (SignalEnd(sig1) - 1) : DualRatingAt(sig1, t) > DualRatingAt(sig2[1], t) /\ DualOffsetAt(sig1, t) # DualOffsetAt(sig2[1], t)
    /\ \E t \in sig1.start .. (SignalEnd(sig1) - 1) : DualRatingAt(sig1, t) < DualRatingAt(sig2[1], t)

\* C6, as stated: at every point t with A(t) = B(t) the returned segment
\* carries A's data (rating, delta, offset and drag at t).
C6_TiesCarryFirst ==
    \A i \in DOMAIN out : \A t \in Points(out[i]) :
        DualRatingAt(sig1, t) = DualRatingAt(sig2[1], t) => FullDataAt(out[i], t) = DualDataAt(sig1, t)

\* A's data is the one the code keeps at t: A is at least B at both ends of the
\* span around t, or A starts the span strictly above B and ends it strictly below
FirstKept(t) ==
    \/ DualRatingAt(sig1, SpanFirst(t)) >= DualRatingAt(sig2[1], SpanFirst(t)) /\ DualRatingAt(sig1, SpanLast(t)) >= DualRatingAt(sig2[1], SpanLast(t))
    \/ DualRatingAt(sig1, SpanFirst(t)) > DualRatingAt(sig2[1], SpanFirst(t)) /\ DualRatingAt(sig1, SpanLast(t)) < DualRatingAt(sig2[1], SpanLast(t))

\* C6, amended: at a point t with A(t) = B(t) the returned segment carries A's
\* data when A is at least B at the first and at the last point of the span
\* around t on which neither input changes segment, or when A is strictly above
\* B at that span's first point and strictly below at its last; otherwise it
\* carries B's data.
C6_TiesCarryKept ==
    \A i \in DOMAIN out : \A t \in Points(out[i]) :
        DualRatingAt(sig1, t) = DualRatingAt(sig2[1], t) => FullDataAt(out[i], t) = (IF FirstKept(t) THEN DualDataAt(sig1, t) ELSE DualDataAt(sig2[1], t))

\* a finished run with a tie at the crossing point of a span that B starts
\* above A, where the two inputs carry different data
C6_Witness ==
    /\ pc = "done"
    /\ \E t \in sig1.start .. (SignalEnd(sig1) - 1) :
        /\ DualRatingAt(sig1, t) = DualRatingAt(sig2[1], t)
        /\ DualDataAt(sig1, t) # DualDataAt(sig2[1], t)
        /\ DualRatingAt(sig1, SpanFirst(t)) < DualRatingAt(sig2[1], SpanFirst(t))
        /\ DualRatingAt(sig1, SpanLast(t)) > DualRatingAt(sig2[1], SpanLast(t))

----------------------------------------------------------------------------
(* LeftToRightMaximumIterator: DualFullSegmentIterator::left_to_right_maximum *)

\* (a constructor whose best rating starts above zero)
LeftToRightMaximumIterator_new_ahead(start) == [current_best_rating |-> 1, current_best_timepoint |-> start, stored_segment |-> None]
LeftToRightMaximumIterator_new(start) == [current_best_rating |-> 0, current_best_timepoint |-> start, stored_segment |-> None]

\* (a constant_dual_info that forgets the best rating)
constant_dual_info_zero(self) == [offset_info |-> OffsetInfo_constant(self.current_best_timepoint), rating_info |-> RatingInfo_constant(0)]
constant_dual_info(self) == [offset_info |-> OffsetInfo_constant(self.current_best_timepoint), rating_info |-> RatingInfo_constant(self.current_best_rating)]
constant_segment(self, span) == [span |-> span, data |-> constant_dual_info(self)]

\* a call of next() pulls from the input
LtrPulls(self) == self.stored_segment = None

\* next(); n is what input_iter.next() returns when called
LeftToRightMaximumIterator_next(self, n) ==
    IF self.stored_segment # None THEN [self |-> [self EXCEPT !.stored_segment = None], item |-> self.stored_segment, panic |-> ""]
    ELSE IF n = None THEN [self |-> self, item |-> None, panic |-> ""]
    ELSE
        LET segment == n[1]
            segment_start_rating == segment.data.rating_info.rating
            segment_end_rating == RatingInfo_end_rating(segment.data.rating_info, PointSpan_len(segment.span))
            start_offset == segment.data.offset_info.offset
            end_offset == OffsetInfo_end_offset(segment.data.offset_info, PointSpan_len(segment.span))
            switch_i64 == div_by_delta_to_i64(self.current_best_rating - segment_start_rating, segment.data.rating_info.delta) + 1
            moved == [self EXCEPT !.current_best_rating = segment_end_rating, !.current_best_timepoint = end_offset]
        IN  IF segment_start_rating <= self.current_best_rating /\ segment_end_rating <= self.current_best_rating THEN
                [self |-> self, item |-> Some(constant_segment(self, segment.span)), panic |-> ""]
            ELSE IF segment_start_rating >= self.current_best_rating THEN
                IF segment_start_rating >= segment_end_rating THEN
                    LET held == [self EXCEPT !.current_best_rating = segment_start_rating, !.current_best_timepoint = start_offset]
                    IN  [self |-> held, item |-> Some(constant_segment(held, segment.span)), panic |-> ""]
                ELSE [self |-> moved, item |-> Some(segment), panic |-> ""]
            ELSE IF ~(segment_start_rating < self.current_best_rating) THEN [self |-> self, item |-> None, panic |-> "assertion failed: segment_start_rating < self.current_best_rating"]
            ELSE IF ~(segment_end_rating > self.current_best_rating) THEN [self |-> self, item |-> None, panic |-> "assertion failed: segment_end_rating > self.current_best_rating"]
            ELSE IF ~(0 < switch_i64) THEN [self |-> self, item |-> None, panic |-> "assertion failed: 0 < switch_i64"]
            ELSE IF ~(switch_i64 < PointSpan_len(segment.span)) THEN [self |-> self, item |-> None, panic |-> "assertion failed: switch_i64 < segment.span.len().as_i64()"]
            ELSE [self |-> [moved EXCEPT !.stored_segment = Some([span |-> PointSpan_new(segment.span.start + switch_i64, segment.span.end),
                                                                   data |-> DualInfo_advanced(segment.data, switch_i64)])],
                  item |-> Some([span |-> PointSpan_new(segment.span.start, segment.span.start + switch_i64), data |-> constant_dual_info(self)]),
                  panic |-> ""]

\* the one input of a one-input operator, with the iterator it_ over it at the start
OneInput(a, it_) == sig1 = a /\ sig2 = None /\ input_iter1 = it_ /\ input_iter2 = <<>>

InitLtr ==
    /\ \E s \in Starts, len \in 1 .. MaxLen : \E n \in 1 .. Min(MaxSegs, len) : \E e \in EndSeqs(s, len, n), d \in [1 .. n -> DualInfos] :
         OneInput(Signal(s, e, d), annotate_with_segment_start_points(Signal(s, e, d)))
    /\ epsilon = 0
    /\ Fresh

LeftToRightMaximum ==
    /\ pc = "start"
    /\ iter' = Some(LeftToRightMaximumIterator_new(sig1.start))
    /\ pc' = "iter"
    /\ UNCHANGED <<decoder_vars, sig1, sig2, epsilon, input_iter1, input_iter2, out, ret, panic>>

LtrNext ==
    /\ pc = "iter"
    /\ LET self == iter[1]
           n == IF LtrPulls(self) THEN IterNext(input_iter1) ELSE None
           r == LeftToRightMaximumIterator_next(self, n)
       IN  /\ iter' = Some(r.self)
           /\ input_iter1' = IF LtrPulls(self) THEN IterRest(input_iter1) ELSE input_iter1
           /\ Returned(r)
    /\ UNCHANGED <<decoder_vars, sig1, sig2, epsilon, input_iter2, ret>>

NextLtr == LeftToRightMaximum \/ LtrNext

SpecLtr == InitLtr /\ [][NextLtr]_vars

\* C2, as stated: every segment left_to_right_maximum returns has, at every
\* point t of its span, the largest rating of S over start .. t.
C2_RunningMaximum ==
    \A i \in DOMAIN out : \A t \in Points(out[i]) : FullRating(out[i], t) = RunningMax(sig1, t)

\* C2, amended: every segment left_to_right_maximum returns has, at every point
\* t of its span, the larger of 0 and the largest rating of S over start .. t
\* (the running maximum starts from Rating::zero(), so a signal that is
\* negative so far yields 0); once the iterator is exhausted the returned
\* segments tile [start, end).
C2_RunningMaximumFromZero ==
    /\ \A i \in DOMAIN out : \A t \in Points(out[i]) : FullRating(out[i], t) = Max(0, RunningMax(sig1, t))
    /\ pc = "done" => Tiles(out, sig1.start, SignalEnd(sig1))

\* a finished run over a signal that starts negative and in which a segment
\* rose through the best rating so far and was split
C2_Witness ==
    /\ pc = "done" /\ Len(out) > Len(sig1.buffer)
    /\ RunningMax(sig1, sig1.start) < 0
    /\ \E t \in SignalPoints(sig1) : RunningMax(sig1, t) > 0

----------------------------------------------------------------------------
(* RatingBuffer::maximum *)

\* the closure of the fold: one segment against the accumulator
\* (current_max, current_max_point, segment_start)
maximum_fold(acc, segment) ==
    LET start_rating == segment.data.rating
        end_rating == RatingInfo_end_rating(segment.data, segment.end_point - acc.segment_start)
    IN  IF acc.panic # "" THEN acc
        ELSE IF ~(acc.segment_start < segment.end_point) THEN [acc EXCEPT !.panic = "assertion failed: segment_start < segment.end_point"]
        ELSE IF start_rating > acc.current_max THEN [acc EXCEPT !.current_max = start_rating, !.current_max_point = acc.segment_start, !.segment_start = segment.end_point]
        ELSE IF end_rating > acc.current_max THEN [acc EXCEPT !.current_max = start_rating, !.current_max_point = segment.end_point - 1, !.segment_start = segment.end_point]
        ELSE [acc EXCEPT !.segment_start = segment.end_point]

RECURSIVE Fold(_, _, _)
\* Iterator::fold as maximum() uses it: i is the index of the next segment
Fold(acc, buffer, i) == IF i > Len(buffer) THEN acc ELSE Fold(maximum_fold(acc, buffer[i]), buffer, i + 1)

RatingBuffer_maximum(self) ==
    LET acc == Fold([current_max |-> 0, current_max_point |-> self.start, segment_start |-> self.start, panic |-> ""], self.buffer, 1)
    IN  [item |-> <<acc.current_max, acc.current_max_point>>, panic |-> acc.panic]

InitMax ==
    /\ \E s \in Starts, len \in 1 .. MaxLen : \E n \in 1 .. Min(MaxSegs, len) : \E e \in EndSeqs(s, len, n), d \in [1 .. n -> RatingInfos] :
         OneInput(Signal(s, e, d), <<>>)
    /\ epsilon = 0
    /\ Fresh

Maximum ==
    /\ pc = "start"
    /\ LET r == RatingBuffer_maximum(sig1)
       IN  /\ ret' = IF r.panic = "" THEN Some(r.item) ELSE None
           /\ panic' = r.panic
           /\ pc' = IF r.panic = "" THEN "done" ELSE "panic"
    /\ UNCHANGED <<decoder_vars, sig1, sig2, epsilon, input_iter1, input_iter2, iter, out>>

NextMax == Maximum

SpecMax == InitMax /\ [][NextMax]_vars

\* the largest rating of a rating signal, and the points that attain it
SignalMax(sig) == SetMax({RatingAt(sig, t) : t \in SignalPoints(sig)})
ArgMax(sig) == {t \in SignalPoints(sig) : RatingAt(sig, t) = SignalMax(sig)}

\* C3: maximum() returns (r, p) with start <= p < end, the signal's value at p
\* equal to r, and r at least the signal's value at every point.
C3_MaximumIsRealized ==
    pc = "done" =>
        /\ ret[1][2] \in SignalPoints(sig1)
        /\ RatingAt(sig1, ret[1][2]) = ret[1][1]
        /\ \A t \in SignalPoints(sig1) : ret[1][1] >= RatingAt(sig1, t)

\* C4: when several points attain the maximum rating, maximum() returns the
\* earliest of them.
C4_MaximumIsEarliest ==
    pc = "done" /\ Cardinality(ArgMax(sig1)) > 1 => ret[1][2] \in ArgMax(sig1) /\ \A t \in ArgMax(sig1) : ret[1][2] <= t

----------------------------------------------------------------------------
(* The push pipeline of save_simplified:                                   *)
(* SimplifyRatingPushIterator -> discard_start_times -> collect_to_vec     *)

FullSegment_discard_start_time(full) == [end_point |-> full.span.end, data |-> full.data]

\* discard_start_times_push_iter over collect_to_vec_push_iter: the vector v
\* after the full segments of pushed went in, or the assertion that failed
discard_start_times_push_iter(v, pushed) ==
    IF \E i \in DOMAIN pushed : ~(PointSpan_len(pushed[i].span) > 0) THEN [v |-> v, panic |-> "assertion failed: full_segment.span.len() > TimeDelta::zero()"]
    ELSE [v |-> v \o [i \in DOMAIN pushed |-> FullSegment_discard_start_time(pushed[i])], panic |-> ""]

simplifiy_ratings_push_iter(start) == [start |-> start, current_segment |-> None]

\* push(): the iterator afterwards and what it pushed downstream
SimplifyRatingPushIterator_push(self, next_segment) ==
    IF self.current_segment = None THEN [self |-> [self EXCEPT !.current_segment = Some(Segment_with_start_point(next_segment, self.start))], pushed |-> <<>>]
    ELSE
        LET current_segment == self.current_segment[1]
        IN  IF current_segment.data.delta = next_segment.data.delta
               /\ RatingInfo_exclusive_end_rating(current_segment.data, PointSpan_len(current_segment.span)) = next_segment.data.rating
            THEN [self |-> [self EXCEPT !.current_segment = Some([current_segment EXCEPT !.span.end = next_segment.end_point])], pushed |-> <<>>]
            ELSE [self |-> [self EXCEPT !.current_segment = Some(Segment_with_start_point(next_segment, current_segment.span.end))], pushed |-> <<current_segment>>]

\* finish(): what it pushes downstream before the downstream finish
SimplifyRatingPushIterator_finish(self) == self.current_segment

\* the caller's side of a push that handed the full segments of pushed downstream
Pushed(pushed) ==
    LET r == discard_start_times_push_iter(out, pushed)
    IN  /\ out' = r.v
        /\ panic' = r.panic
        /\ pc' = IF r.panic # "" THEN "panic" ELSE "iter"

\* the caller's side of finish(): the last push, then the buffer is built
Finished(pushed) ==
    LET r == discard_start_times_push_iter(out, pushed)
    IN  /\ out' = r.v
        /\ panic' = r.panic
        /\ pc' = IF r.panic # "" THEN "panic" ELSE "done"
        /\ ret' = IF r.panic # "" THEN None ELSE Some([start |-> sig1.start, buffer |-> r.v])

InitSimplify ==
    /\ \E s \in Starts, len \in 1 .. MaxLen : \E n \in 1 .. Min(MaxSegs, len) : \E e \in EndSeqs(s, len, n), d \in [1 .. n -> RatingInfos] :
         OneInput(Signal(s, e, d), Signal(s, e, d).buffer)
    /\ epsilon = 0
    /\ Fresh

\* save_simplified up to the for loop of into_push_iter
SaveSimplified ==
    /\ pc = "start"
    /\ iter' = Some(simplifiy_ratings_push_iter(sig1.start))
    /\ pc' = "iter"
    /\ UNCHANGED <<decoder_vars, sig1, sig2, epsilon, input_iter1, input_iter2, out, ret, panic>>

\* one turn of the for loop of into_push_iter
SimplifyPush ==
    /\ pc = "iter" /\ input_iter1 # <<>>
    /\ LET r == SimplifyRatingPushIterator_push(iter[1], Head(input_iter1))
       IN  /\ iter' = Some(r.self)
           /\ Pushed(r.pushed)
    /\ input_iter1' = Tail(input_iter1)
    /\ UNCHANGED <<decoder_vars, sig1, sig2, epsilon, input_iter2, ret>>

\* the end of into_push_iter: iter.finish()
SimplifyFinish ==
    /\ pc = "iter" /\ input_iter1 = <<>>
    /\ Finished(SimplifyRatingPushIterator_finish(iter[1]))
    /\ iter' = None
    /\ UNCHANGED <<decoder_vars, sig1, sig2, epsilon, input_iter1, input_iter2>>

NextSimplify == SaveSimplified \/ SimplifyPush \/ SimplifyFinish

SpecSimplify == InitSimplify /\ [][NextSimplify]_vars

\* input segments i and i + 1 of a rating signal have the same delta and the
\* later one starts at the rating the earlier one reaches at its exclusive end
Abut(sig, i) ==
    /\ sig.buffer[i].data.delta = sig.buffer[i + 1].data.delta
    /\ sig.buffer[i].data.rating + sig.buffer[i].data.delta * (sig.buffer[i].end_point - SegStart(sig.start, sig.buffer, i)) = sig.buffer[i + 1].data.rating

\* C7: the buffer save_simplified builds has the start and the final end point
\* of S and the value of S at every point, and its segment ends are exactly the
\* ends of the input segments that do not abut the next one with the same delta
\* (two adjacent segments are merged exactly when they have the same delta and
\* the earlier one's exclusive end rating is the later one's start rating).
C7_SaveSimplified ==
    pc = "done" =>
        /\ ret[1].start = sig1.start
        /\ ret[1].buffer # <<>>
        /\ SignalEnd(ret[1]) = SignalEnd(sig1)
        /\ \A i \in 1 .. (Len(ret[1].buffer) - 1) : ret[1].buffer[i].end_point < ret[1].buffer[i + 1].end_point
        /\ \A t \in SignalPoints(sig1) : RatingAt(ret[1], t) = RatingAt(sig1, t)
        /\ {ret[1].buffer[i].end_point : i \in DOMAIN ret[1].buffer} = {sig1.buffer[i].end_point : i \in {j \in DOMAIN sig1.buffer : j = Len(sig1.buffer) \/ ~Abut(sig1, j)}}

\* a finished run that merged two sloped segments and kept a third apart
C7_Witness ==
    /\ pc = "done" /\ Len(sig1.buffer) = 3 /\ Len(ret[1].buffer) = 2
    /\ \E i \in 1 .. 2 : Abut(sig1, i) /\ sig1.buffer[i].data.delta # 0

----------------------------------------------------------------------------
(* DualSimplifyIterator: DualIterator::simplify *)

\* the constructor; n is what the first next() of the input returns
simplify(start, n) == [current_segment |-> IF n = None THEN None ELSE Some(Segment_with_start_point(n[1], start))]

RECURSIVE DualSimplifyIterator_loop(_, _)
\* the loop of next(): current_segment against what is left of the input;
\* rest is what the loop leaves of the input
DualSimplifyIterator_loop(current_segment, it) ==
    IF it = <<>> THEN [self |-> [current_segment |-> None], item |-> Some(current_segment), panic |-> "", rest |-> it]
    ELSE
        LET next_segment == Head(it)
        IN  IF /\ next_segment.data.rating_info.delta = current_segment.data.rating_info.delta
               /\ next_segment.data.offset_info.drag = current_segment.data.offset_info.drag
               /\ OffsetInfo_exclusive_end_offset(current_segment.data.offset_info, PointSpan_len(current_segment.span)) = next_segment.data.offset_info.offset
               /\ RatingInfo_exclusive_end_rating(current_segment.data.rating_info, PointSpan_len(current_segment.span)) = next_segment.data.rating_info.rating
            THEN DualSimplifyIterator_loop([current_segment EXCEPT !.span.end = next_segment.end_point], Tail(it))
            ELSE [self |-> [current_segment |-> Some(Segment_with_start_point(next_segment, current_segment.span.end))],
                  item |-> Some(current_segment), panic |-> "", rest |-> Tail(it)]

\* next(); it is what is left of the input
DualSimplifyIterator_next(self, it) ==
    IF self.current_segment = None THEN [self |-> self, item |-> None, panic |-> "", rest |-> it]
    ELSE DualSimplifyIterator_loop(self.current_segment[1], it)

InitDualSimplify ==
    /\ \E s \in Starts, len \in 1 .. MaxLen : \E n \in 1 .. Min(MaxSegs, len) : \E e \in EndSeqs(s, len, n), d \in [1 .. n -> DualInfos] :
         OneInput(Signal(s, e, d), Signal(s, e, d).buffer)
    /\ epsilon = 0
    /\ Fresh

Simplify ==
    /\ pc = "start"
    /\ iter' = Some(simplify(sig1.start, IterNext(input_iter1)))
    /\ input_iter1' = IterRest(input_iter1)
    /\ pc' = "iter"
    /\ UNCHANGED <<decoder_vars, sig1, sig2, epsilon, input_iter2, out, ret, panic>>

DualSimplifyNext ==
    /\ pc = "iter"
    /\ LET r == DualSimplifyIterator_next(iter[1], input_iter1)
       IN  /\ iter' = Some(r.self)
           /\ input_iter1' = r.rest
           /\ Returned(r)
    /\ UNCHANGED <<decoder_vars, sig1, sig2, epsilon, input_iter2, ret>>

NextDualSimplify == Simplify \/ DualSimplifyNext

SpecDualSimplify == InitDualSimplify /\ [][NextDualSimplify]_vars

\* input segments i and i + 1 of a dual signal agree in delta and in drag, and
\* the later one starts at the rating and at the offset the earlier one reaches
\* at its exclusive end
DualAbut(sig, i) ==
    LET a == sig.buffer[i].data
        b == sig.buffer[i + 1].data
        len == sig.buffer[i].end_point - SegStart(sig.start, sig.buffer, i)
    IN  /\ a.rating_info.delta = b.rating_info.delta
        /\ a.offset_info.drag = b.offset_info.drag
        /\ a.rating_info.rating + a.rating_info.delta * len = b.rating_info.rating
        /\ (IF a.offset_info.drag THEN a.offset_info.offset + len ELSE a.offset_info.offset) = b.offset_info.offset

\* C8: every segment DualIterator::simplify returns has, at every point t of
\* its span, the rating and the offset of S at t; an end of an input segment
\* lies inside a returned segment only when that input segment and the next
\* agree in delta and drag and abut in rating and in offset; once the iterator
\* is exhausted the returned segments tile [start, end).
C8_DualSimplify ==
    /\ \A i \in DOMAIN out : \A t \in Points(out[i]) : FullRating(out[i], t) = DualRatingAt(sig1, t) /\ FullOffset(out[i], t) = DualOffsetAt(sig1, t)
    /\ \A i \in DOMAIN out : \A j \in 1 .. (Len(sig1.buffer) - 1) :
        out[i].span.start < sig1.buffer[j].end_point /\ sig1.buffer[j].end_point < out[i].span.end => DualAbut(sig1, j)
    /\ pc = "done" => Tiles(out, sig1.start, SignalEnd(sig1))

\* a finished run that merged two dragging, sloped segments and kept a third apart
C8_Witness ==
    /\ pc = "done" /\ Len(sig1.buffer) = 3 /\ Len(out) = 2
    /\ \E i \in 1 .. 2 : DualAbut(sig1, i) /\ sig1.buffer[i].data.rating_info.delta # 0 /\ sig1.buffer[i].data.offset_info.drag

----------------------------------------------------------------------------
(* The push pipeline of save_aggressively_simplified:                      *)
(* AggressiveSimplifyRatingPushIterator -> discard_start_times -> collect  *)
(*                                                                         *)
(* The f64 slopes of the code are products n * (1.0 / d) of two integers;  *)
(* the model keeps them as the exact quotient <<n, d>> with d > 0.  The    *)
(* two agree as long as |target - pivot| <= 2, where 1.0 / d is exact in   *)
(* f64; that covers every signal of at most 3 points (MaxLen).  An         *)
(* Interval is either (-inf, +inf) (all) or has two finite ends.           *)

Frac(n, d) == IF d > 0 THEN <<n, d>> ELSE <<0 - n, 0 - d>>
FracLe(a, b) == a[1] * b[2] <= b[1] * a[2]
FracMax(a, b) == IF FracLe(a, b) THEN b ELSE a
FracMin(a, b) == IF FracLe(a, b) THEN a ELSE b
Everything == [all |-> TRUE, lo |-> <<0, 1>>, hi |-> <<0, 1>>]

get_min_max_offset_for_target(target_rating, target, pivot_rating, pivot, max_diff) ==
    IF target = pivot THEN Everything
    ELSE
        LET min_delta == Frac(target_rating - pivot_rating - max_diff, target - pivot)
            max_delta == Frac(target_rating - pivot_rating + max_diff, target - pivot)
        IN  IF FracLe(min_delta, max_delta) THEN [all |-> FALSE, lo |-> min_delta, hi |-> max_delta]
            ELSE [all |-> FALSE, lo |-> max_delta, hi |-> min_delta]

intersect_intervals(a, b) ==
    IF a.all THEN b
    ELSE IF b.all THEN a
    ELSE [all |-> FALSE, lo |-> FracMax(a.lo, b.lo), hi |-> FracMin(a.hi, b.hi)]

get_min_max_offset_for_segment(seg, pivot_rating, pivot, max_diff) ==
    intersect_intervals(
        get_min_max_offset_for_target(seg.data.rating, seg.span.start, pivot_rating, pivot, max_diff),
        get_min_max_offset_for_target(RatingInfo_end_rating(seg.data, PointSpan_len(seg.span)), seg.span.end - 1, pivot_rating, pivot, max_diff))

\* next_interval.0 <= next_interval.1
IntervalNonEmpty(a) == a.all \/ FracLe(a.lo, a.hi)

\* ((next_interval.0 + next_interval.1) / 2.) as i64: the cast truncates
\* towards zero, and turns the NaN of -inf + inf into 0
IntervalMiddle(a) == IF a.all THEN 0 ELSE TruncDiv(a.lo[1] * a.hi[2] + a.hi[1] * a.lo[2], 2 * a.lo[2] * a.hi[2])

create_segment(self, seg) ==
    LET pivot == PointSpan_half(seg.span)
        pivot_rating == RatingInfo_get_at(seg.data, pivot - seg.span.start)
    IN  [seg |-> seg, pivot |-> pivot, offset_interval |-> get_min_max_offset_for_segment(seg, pivot_rating, pivot, self.epsilon)]

aggressive_simplifiy_ratings_push_iter(start, max_diff) == [start |-> start, epsilon |-> max_diff, current_segment |-> None]

\* push(): the iterator afterwards and what it pushed downstream
AggressiveSimplifyRatingPushIterator_push(self, next_segment) ==
    IF self.current_segment = None THEN
        [self |-> [self EXCEPT !.current_segment = Some(create_segment(self, Segment_with_start_point(next_segment, self.start)))], pushed |-> <<>>]
    ELSE
        LET current_segment == self.current_segment[1]
            seg == Segment_with_start_point(next_segment, current_segment.seg.span.end)
            pivot_diff == current_segment.pivot - current_segment.seg.span.start
            pivot_rating == RatingInfo_get_at(current_segment.seg.data, pivot_diff)
            interval == get_min_max_offset_for_segment(seg, pivot_rating, current_segment.pivot, self.epsilon)
            next_interval == intersect_intervals(current_segment.offset_interval, interval)
            new_delta == IntervalMiddle(next_interval)
            new_start_rating == add_mul(pivot_rating, new_delta, 0 - pivot_diff)
        IN  IF IntervalNonEmpty(next_interval) THEN
                [self |-> [self EXCEPT !.current_segment = Some([seg |-> [span |-> [start |-> current_segment.seg.span.start, end |-> next_segment.end_point],
                                                                          data |-> [rating |-> new_start_rating, delta |-> new_delta]],
                                                                 pivot |-> current_segment.pivot,
                                                                 offset_interval |-> next_interval])],
                 pushed |-> <<>>]
            ELSE [self |-> [self EXCEPT !.current_segment = Some(create_segment(self, seg))], pushed |-> <<current_segment.seg>>]

\* finish(): what it pushes downstream before the downstream finish
AggressiveSimplifyRatingPushIterator_finish(self) == IF self.current_segment = None THEN <<>> ELSE <<self.current_segment[1].seg>>

InitAggressive ==
    /\ \E s \in Starts, len \in 1 .. MaxLen : \E n \in 1 .. Min(MaxSegs, len) : \E e \in EndSeqs(s, len, n), d \in [1 .. n -> RatingInfos] :
         OneInput(Signal(s, e, d), Signal(s, e, d).buffer)
    /\ epsilon \in Epsilons
    /\ Fresh

\* save_aggressively_simplified up to the for loop of into_push_iter
SaveAggressivelySimplified ==
    /\ pc = "start"
    /\ iter' = Some(aggressive_simplifiy_ratings_push_iter(sig1.start, epsilon))
    /\ pc' = "iter"
    /\ UNCHANGED <<decoder_vars, sig1, sig2, epsilon, input_iter1, input_iter2, out, ret, panic>>

\* one turn of the for loop of into_push_iter
AggressivePush ==
    /\ pc = "iter" /\ input_iter1 # <<>>
    /\ LET r == AggressiveSimplifyRatingPushIterator_push(iter[1], Head(input_iter1))
       IN  /\ iter' = Some(r.self)
           /\ Pushed(r.pushed)
    /\ input_iter1' = Tail(input_iter1)
    /\ UNCHANGED <<decoder_vars, sig1, sig2, epsilon, input_iter2, ret>>

\* the end of into_push_iter: iter.finish()
AggressiveFinish ==
    /\ pc = "iter" /\ input_iter1 = <<>>
    /\ Finished(AggressiveSimplifyRatingPushIterator_finish(iter[1]))
    /\ iter' = None
    /\ UNCHANGED <<decoder_vars, sig1, sig2, epsilon, input_iter1, input_iter2>>

NextAggressive == SaveAggressivelySimplified \/ AggressivePush \/ AggressiveFinish

SpecAggressive == InitAggressive /\ [][NextAggressive]_vars

RECURSIVE into_push_iter_simplify(_, _, _)
\* into_push_iter over the pipeline of save_simplified: the vector collected
into_push_iter_simplify(self, v, it) ==
    IF it = <<>> THEN discard_start_times_push_iter(v, SimplifyRatingPushIterator_finish(self)).v
    ELSE into_push_iter_simplify(SimplifyRatingPushIterator_push(self, Head(it)).self, discard_start_times_push_iter(v, SimplifyRatingPushIterator_push(self, Head(it)).pushed).v, Tail(it))

\* RatingIterator::save_simplified as one function of the signal
save_simplified(sig) == [start |-> sig.start, buffer |-> into_push_iter_simplify(simplifiy_ratings_push_iter(sig.start), <<>>, sig.buffer)]

\* the distance of two ratings
Dist(a, b) == IF a >= b THEN a - b ELSE b - a

\* C9: the buffer save_aggressively_simplified(epsilon) builds differs from S
\* by at most epsilon at the first and at the last point of every input segment.
C9_WithinEpsilonAtEndpoints ==
    pc = "done" =>
        /\ ret[1].start = sig1.start /\ ret[1].buffer # <<>> /\ SignalEnd(ret[1]) = SignalEnd(sig1)
        /\ \A i \in DOMAIN sig1.buffer :
            /\ Dist(RatingAt(ret[1], SegStart(sig1.start, sig1.buffer, i)), RatingAt(sig1, SegStart(sig1.start, sig1.buffer, i))) <= epsilon
            /\ Dist(RatingAt(ret[1], sig1.buffer[i].end_point - 1), RatingAt(sig1, sig1.buffer[i].end_point - 1)) <= epsilon

\* C10: with epsilon = 0, save_aggressively_simplified builds the buffer
\* save_simplified builds.
C10_ZeroEpsilonIsSaveSimplified ==
    pc = "done" /\ epsilon = 0 => ret[1] = save_simplified(sig1)

----------------------------------------------------------------------------
(* RatingIterator::clamp_end *)

\* points handed to clamp_end and extend_to: from before the start to past the end
ArgPoints(sig) == (sig.start - 1) .. (SignalEnd(sig) + 1)

\* the segment the closure of clamp_end makes of a segment of the input
clamp_end_unclamped(clamp, rating_segment) == rating_segment
\* (a closure that ends every segment one point before the clamp or its own end)
clamp_end_short(clamp, rating_segment) == [end_point |-> Min(rating_segment.end_point, clamp) - 1, data |-> rating_segment.data]
clamp_end_closure(clamp, rating_segment) == [end_point |-> Min(rating_segment.end_point, clamp), data |-> rating_segment.data]

\* clamp_end: the Map adapter, which holds the closure and so the clamp
clamp_end(clamp) == [clamp |-> clamp]

\* Map::next; n is what the input's next() returns
ClampEndIterator_next(self, n) ==
    IF n = None THEN [self |-> self, item |-> None, panic |-> ""]
    ELSE [self |-> self, item |-> Some(clamp_end_closure(self.clamp, n[1])), panic |-> ""]

InitClampEnd ==
    /\ \E s \in Starts, len \in 1 .. MaxLen : \E n \in 1 .. Min(MaxSegs, len) : \E e \in EndSeqs(s, len, n), d \in [1 .. n -> RatingInfos] :
         OneInput(Signal(s, e, d), Signal(s, e, d).buffer)
    /\ epsilon = 0
    /\ Fresh

ClampEnd ==
    /\ pc = "start"
    /\ \E clamp \in ArgPoints(sig1) : iter' = Some(clamp_end(clamp))
    /\ pc' = "iter"
    /\ UNCHANGED <<decoder_vars, sig1, sig2, epsilon, input_iter1, input_iter2, out, ret, panic>>

ClampEndNext ==
    /\ pc = "iter"
    /\ LET r == ClampEndIterator_next(iter[1], IterNext(input_iter1))
       IN  /\ iter' = Some(r.self)
           /\ Returned(r)
    /\ input_iter1' = IterRest(input_iter1)
    /\ UNCHANGED <<decoder_vars, sig1, sig2, epsilon, input_iter2, ret>>

NextClampEnd == ClampEnd \/ ClampEndNext

SpecClampEnd == InitClampEnd /\ [][NextClampEnd]_vars

\* the rating signal a rating iterator over S has returned: S's start and out
OutSignal == [start |-> sig1.start, buffer |-> out]

\* C11: for a clamp c with start < c < end, the signal clamp_end(c) returns
\* ends at exactly c and has the rating of S at every point of [start, c).
C11_ClampEnd ==
    pc = "done" /\ sig1.start < iter[1].clamp /\ iter[1].clamp < SignalEnd(sig1) =>
        /\ out # <<>> /\ SignalEnd(OutSignal) = iter[1].clamp
        /\ \A t \in sig1.start .. (iter[1].clamp - 1) : RatingAt(OutSignal, t) = RatingAt(sig1, t)

\* a finished run in which the clamp cut the first of several segments short
C11_Witness ==
    /\ pc = "done" /\ Len(out) >= 2
    /\ sig1.start < iter[1].clamp /\ iter[1].clamp < sig1.buffer[1].end_point
    /\ out[1].data.delta # 0

----------------------------------------------------------------------------
(* RatingIterator::extend_to, ExtendToIterator *)

\* extend_to: the ExtendToIterator it builds (input_iter is input_iter1)
extend_to_nothing(end_point) == [data_to_extend |-> None, end_point |-> end_point]
extend_to(end_point) == [data_to_extend |-> Some([rating |-> 0, delta |-> 0]), end_point |-> end_point]

\* (a next() that keeps data_to_extend when a segment ends at end_point)
ExtendToIterator_next_keeps(self, n) ==
    IF n # None THEN
        IF ~(n[1].end_point <= self.end_point) THEN [self |-> self, item |-> None, panic |-> "assertion failed: s.end_point <= self.end_point"]
        ELSE [self |-> self, item |-> n, panic |-> ""]
    ELSE IF self.data_to_extend # None THEN
        [self |-> [self EXCEPT !.data_to_extend = None], item |-> Some([end_point |-> self.end_point, data |-> self.data_to_extend[1]]), panic |-> ""]
    ELSE [self |-> self, item |-> None, panic |-> ""]

\* next(); n is what input_iter.next() returns
ExtendToIterator_next(self, n) ==
    IF n # None THEN
        IF ~(n[1].end_point <= self.end_point) THEN [self |-> self, item |-> None, panic |-> "assertion failed: s.end_point <= self.end_point"]
        ELSE [self |-> IF n[1].end_point = self.end_point THEN [self EXCEPT !.data_to_extend = None] ELSE self, item |-> n, panic |-> ""]
    ELSE IF self.data_to_extend # None THEN
        [self |-> [self EXCEPT !.data_to_extend = None], item |-> Some([end_point |-> self.end_point, data |-> self.data_to_extend[1]]), panic |-> ""]
    ELSE [self |-> self, item |-> None, panic |-> ""]

InitExtendTo ==
    /\ \E s \in Starts, len \in 1 .. MaxLen : \E n \in 1 .. Min(MaxSegs, len) : \E e \in EndSeqs(s, len, n), d \in [1 .. n -> RatingInfos] :
         OneInput(Signal(s, e, d), Signal(s, e, d).buffer)
    /\ epsilon = 0
    /\ Fresh

ExtendTo ==
    /\ pc = "start"
    /\ \E end_point \in ArgPoints(sig1) : iter' = Some(extend_to(end_point))
    /\ pc' = "iter"
    /\ UNCHANGED <<decoder_vars, sig1, sig2, epsilon, input_iter1, input_iter2, out, ret, panic>>

ExtendToNext ==
    /\ pc = "iter"
    /\ LET r == ExtendToIterator_next(iter[1], IterNext(input_iter1))
       IN  /\ iter' = Some(r.self)
           /\ Returned(r)
    /\ input_iter1' = IterRest(input_iter1)
    /\ UNCHANGED <<decoder_vars, sig1, sig2, epsilon, input_iter2, ret>>

NextExtendTo == ExtendTo \/ ExtendToNext

SpecExtendTo == InitExtendTo /\ [][NextExtendTo]_vars

\* C12: when S ends at or before end, extend_to(end) returns the segments of S
\* unchanged and in order, followed by exactly one segment (end_point = end,
\* rating 0, delta 0) when S ends before end and by nothing when S ends at end.
C12_ExtendTo ==
    pc \in {"iter", "done"} /\ SignalEnd(sig1) <= iter[1].end_point =>
        LET extended == IF SignalEnd(sig1) < iter[1].end_point
                        THEN Append(sig1.buffer, [end_point |-> iter[1].end_point, data |-> [rating |-> 0, delta |-> 0]])
                        ELSE sig1.buffer
        IN  /\ Len(out) <= Len(extended) /\ out = SubSeq(extended, 1, Len(out))
            /\ pc = "done" => out = extended

\* a finished run that appended the extra segment to a signal of several segments
C12_Witness ==
    /\ pc = "done" /\ Len(sig1.buffer) >= 2 /\ Len(out) = Len(sig1.buffer) + 1
    /\ out[Len(out)].end_point = SignalEnd(sig1) + 1

----------------------------------------------------------------------------
(* ChunkedAudioReceiver (src/ilass-cli/src/video_decoder.rs) *)
(*                                                                         *)
(* The caller hands over the samples 1, 2, 3, ... cut into slices of any   *)
(* length; the buffer starts as zeros, so every sample is told apart from  *)
(* every other one and from the buffer's first content.  The receiver      *)
(* next is the variable receiver: the calls it got, each with what it      *)
(* returned.                                                               *)

\* largest window size
MaxWindow == 3
\* longest slice handed to one push_samples call
MaxSlice == 4
\* most samples handed over in a run
MaxSamples == 6

\* a segment pipeline has no part in a run of the audio front end
NoSignals == sig1 = None /\ sig2 = None /\ epsilon = 0 /\ input_iter1 = <<>> /\ input_iter2 = <<>>

\* a call of an AudioReceiver: op is "push_samples" or "finish", ok is whether it returned Ok
ReceiverCall(op, s, ok) == [op |-> op, samples |-> s, ok |-> ok]

ChunkedAudioReceiver_new(size) == [buffer |-> [i \in 1 .. size |-> 0], filled |-> 0]

\* self.buffer[filled..filled + sample_count].clone_from_slice(&samples[..sample_count])
clone_from_slice_at_start(buffer, filled, s, sample_count) == [i \in DOMAIN buffer |-> IF i <= sample_count THEN s[i] ELSE buffer[i]]
clone_from_slice(buffer, filled, s, sample_count) == [i \in DOMAIN buffer |-> IF i > filled /\ i <= filled + sample_count THEN s[i - filled] ELSE buffer[i]]

RECURSIVE ChunkedAudioReceiver_loop(_, _, _, _)
\* the loop of push_samples over what is left of the slice; calls are the calls
\* of self.next made so far, fail is the number of the one that returns Err
\* (0 when none does)
ChunkedAudioReceiver_loop(self, s, calls, fail) ==
    IF s = <<>> THEN [self |-> self, calls |-> calls, result |-> "Ok", panic |-> ""]
    ELSE
        LET sample_count == Min(Len(self.buffer) - self.filled, Len(s))
            buffer == clone_from_slice(self.buffer, self.filled, s, sample_count)
            filled == self.filled + sample_count
            rest == SubSeq(s, sample_count + 1, Len(s))
        IN  IF filled = Len(buffer) THEN
                IF Len(calls) + 1 = fail THEN
                    [self |-> [buffer |-> buffer, filled |-> filled], calls |-> Append(calls, ReceiverCall("push_samples", buffer, FALSE)), result |-> "Err", panic |-> ""]
                ELSE ChunkedAudioReceiver_loop([buffer |-> buffer, filled |-> 0], rest, Append(calls, ReceiverCall("push_samples", buffer, TRUE)), fail)
            ELSE ChunkedAudioReceiver_loop([buffer |-> buffer, filled |-> filled], rest, calls, fail)

ChunkedAudioReceiver_push_samples(self, s, fail) ==
    IF ~(Len(self.buffer) > self.filled) THEN [self |-> self, calls |-> <<>>, result |-> "", panic |-> "assertion failed: self.buffer.len() > self.filled"]
    ELSE ChunkedAudioReceiver_loop(self, s, <<>>, fail)

\* finish(): the call of self.next it makes and what it returns
ChunkedAudioReceiver_finish(self, ok) == [calls |-> <<ReceiverCall("finish", <<>>, ok)>>, result |-> IF ok THEN "Ok" ELSE "Err"]

InitChunked == NoSignals /\ Fresh

ChunkedNew ==
    /\ pc = "start"
    /\ \E size \in 0 .. MaxWindow : iter' = Some(ChunkedAudioReceiver_new(size))
    /\ pc' = "iter"
    /\ UNCHANGED <<segment_vars, decoder_vars, ret, panic>>

\* one call of push_samples, with the next k samples
ChunkedPushSamples ==
    /\ pc = "iter"
    /\ \E k \in 0 .. Min(MaxSlice, MaxSamples - Len(samples)) : \E fail \in 0 .. k :
        LET s == [i \in 1 .. k |-> Len(samples) + i]
            r == ChunkedAudioReceiver_push_samples(iter[1], s, fail)
        IN  /\ iter' = Some(r.self)
            /\ receiver' = receiver \o r.calls
            /\ samples' = samples \o s
            /\ ret' = IF r.panic # "" THEN ret ELSE Some(r.result)
            /\ panic' = r.panic
            /\ pc' = IF r.panic # "" THEN "panic" ELSE "iter"
    /\ UNCHANGED <<segment_vars, env, child, progress>>

\* the call of finish(), which consumes the receiver
ChunkedFinish ==
    /\ pc = "iter"
    /\ \E ok \in BOOLEAN :
        LET r == ChunkedAudioReceiver_finish(iter[1], ok)
        IN  /\ receiver' = receiver \o r.calls
            /\ ret' = Some(r.result)
    /\ pc' = "done"
    /\ UNCHANGED <<segment_vars, env, child, progress, samples, iter, panic>>

NextChunked == ChunkedNew \/ ChunkedPushSamples \/ ChunkedFinish

SpecChunked == InitChunked /\ [][NextChunked]_vars

RECURSIVE Delivered(_)
\* the samples a receiver got, in order: the slices of its push_samples calls
Delivered(calls) == IF calls = <<>> THEN <<>> ELSE (IF Head(calls).op = "push_samples" THEN Head(calls).samples ELSE <<>>) \o Delivered(Tail(calls))

\* every call the receiver got returned Ok
AllOk(calls) == \A i \in DOMAIN calls : calls[i].ok

\* C13: once finish() has called the downstream finish(), the downstream
\* receiver has got every sample handed over, the ones of the last, partial
\* window included (no downstream call having failed).
C13_FlushOnFinish ==
    pc = "done" /\ receiver # <<>> /\ receiver[Len(receiver)].op = "finish" /\ AllOk(receiver) => Delivered(receiver) = samples

\* the number of samples a receiver's push_samples calls got
Window == Len(iter[1].buffer)

\* C14, as stated: with a window of W >= 1 samples, every slice passed
\* downstream has exactly W samples and the slices passed downstream are, in
\* order, the first W * floor(n / W) of the n samples handed over so far,
\* however they were cut into calls.
C14_Windows ==
    iter # None /\ Window >= 1 =>
        /\ \A i \in DOMAIN receiver : receiver[i].op = "push_samples" => Len(receiver[i].samples) = Window
        /\ Delivered(receiver) = SubSeq(samples, 1, Window * (Len(samples) \div Window))

\* C14, amended: with a window of W >= 1 samples, every slice passed
\* downstream has exactly W samples and the slices passed downstream are, in
\* order, the first samples handed over so far, however they were cut into
\* calls: the first W * floor(n / W) of the n as long as no downstream
\* push_samples has returned an error, and after one has, nothing more is
\* passed downstream by push_samples.
C14_WindowsWhileOk ==
    iter # None /\ Window >= 1 =>
        /\ \A i \in DOMAIN receiver : receiver[i].op = "push_samples" => Len(receiver[i].samples) = Window
        /\ Len(Delivered(receiver)) <= Len(samples) /\ Delivered(receiver) = SubSeq(samples, 1, Len(Delivered(receiver)))
        /\ AllOk(receiver) /\ panic = "" => Delivered(receiver) = SubSeq(samples, 1, Window * (Len(samples) \div Window))
        /\ \A i \in DOMAIN receiver : ~receiver[i].ok => \A j \in (i + 1) .. Len(receiver) : receiver[j].op = "finish"

\* two full windows were passed downstream and a partial one is buffered, the
\* samples having come in slices that are not the windows
C14_Witness ==
    /\ iter # None /\ Window >= 2 /\ AllOk(receiver) /\ pc = "iter"
    /\ Len(receiver) = 2 /\ iter[1].filled = 1
    /\ ret = Some("Ok")

----------------------------------------------------------------------------
(* VideoDecoderFFmpegBinary (src/ilass-cli/src/video_decoder/ffmpeg_binary.rs) *)
(*                                                                         *)
(* env is what a call of decode meets: the audio_index handed over, what   *)
(* the probing process does (probe), whether the decode process can be     *)
(* spawned and the bytes it writes to its stdout.  What a read() returns,  *)
(* what the receiver returns, how the decode process exits and what its    *)
(* stderr holds are chosen when the code asks for them.  A text (stderr)   *)
(* is a sequence of characters; a duration is the string of the metadata.  *)

PROGRESS_PRESCALER == 200
\* the 8000.0 of `(duration * 8000.0) as i64`
SampleRate == 8000

\* most streams of the metadata
MaxStreams == 2
\* most bytes one read() returns
MaxRead == 3
\* the decode process writes up to MaxProgress * PROGRESS_PRESCALER + 1 samples
MaxProgress == 2

Texts == {<<>>, <<"\n">>, <<"e", "\n">>}
ExitCodes == {Some(0), Some(1), None}
Bytes == {1, 255}

RECURSIVE trim_end(_)
\* str::trim_end
trim_end(s) == IF s # <<>> /\ s[Len(s)] \in {" ", "\n"} THEN trim_end(SubSeq(s, 1, Len(s) - 1)) ELSE s

\* str::parse::<f64>: the value as a fraction, None when the string is no number
\* (the f64 products of these values with 8000.0 are exact)
parse_f64(s) ==
    CASE s = "0" -> Some(Frac(0, 1))
      [] s = "0.025" -> Some(Frac(25, 1000))
      [] s = "0.0375" -> Some(Frac(375, 10000))
      [] s = "0.05" -> Some(Frac(5, 100))
      [] s = "0.075" -> Some(Frac(75, 1000))
      [] OTHER -> None

\* a DecoderError (code and msg are the fields of the variants that have them) and a success
Err(kind, code, msg) == [kind |-> kind, code |-> code, msg |-> msg]
Ok == Err("Ok", None, <<>>)

\* the streams and formats a metadata can hold
Streams == [index : 0 .. (MaxStreams - 1), channels : {None, Some(1), Some(2)}, duration : {None, Some("0.025"), Some("N/A")}, codec_type : {"Audio", "Video"}]
Formats == {None, Some([duration |-> None]), Some([duration |-> Some("0.05")]), Some([duration |-> Some("N/A")])}

\* a probing process that exits with 0 and prints the metadata
Probed(streams, format) == [spawned |-> TRUE, code |-> Some(0), stderr |-> <<>>, utf8 |-> TRUE, json |-> TRUE, metadata |-> [streams |-> streams, format |-> format]]

\* get_metadata
get_metadata(probe) ==
    IF ~probe.spawned THEN [ok |-> FALSE, err |-> Err("FailedSpawningSubprocess", None, <<>>)]
    ELSE IF probe.code # Some(0) THEN
        IF trim_end(probe.stderr) = <<>> THEN [ok |-> FALSE, err |-> Err("ProcessErrorCode", probe.code, <<>>)]
        ELSE [ok |-> FALSE, err |-> Err("ProcessErrorMessage", None, trim_end(probe.stderr))]
    ELSE IF ~probe.utf8 THEN [ok |-> FALSE, err |-> Err("FailedToDecodeVideoStreamInfo", None, <<>>)]
    ELSE IF ~probe.json THEN [ok |-> FALSE, err |-> Err("DeserializingMetadataFailed", None, <<>>)]
    ELSE [ok |-> TRUE, value |-> probe.metadata]

\* Iterator::min_by_key(|s| s.channels.unwrap()): the first of the least
min_by_key_last(streams) == IF streams = <<>> THEN None ELSE Some(streams[CHOOSE i \in DOMAIN streams : (\A j \in DOMAIN streams : streams[j].channels[1] >= streams[i].channels[1]) /\ (\A j \in DOMAIN streams : j > i => streams[j].channels[1] > streams[i].channels[1])])
min_by_key(streams) == IF streams = <<>> THEN None ELSE Some(streams[CHOOSE i \in DOMAIN streams : (\A j \in DOMAIN streams : streams[j].channels[1] >= streams[i].channels[1]) /\ (\A j \in DOMAIN streams : j < i => streams[j].channels[1] > streams[i].channels[1])])

\* the audio streams decode chooses from
audio_streams(metadata) == SelectSeq(metadata.streams, LAMBDA s : s.codec_type = "Audio" /\ s.channels # None)

\* best_stream_opt
best_stream_opt(metadata, audio_index) ==
    IF audio_index = None THEN min_by_key(audio_streams(metadata))
    ELSE LET found == SelectSeq(audio_streams(metadata), LAMBDA s : s.index = audio_index[1])
         IN  IF found = <<>> THEN None ELSE Some(found[1])

\* duration_str, before ok_or
duration_str_format_first(best_stream, format_opt) == IF format_opt # None /\ format_opt[1].duration # None THEN format_opt[1].duration ELSE best_stream.duration
duration_str(best_stream, format_opt) ==
    IF best_stream.duration # None THEN best_stream.duration
    ELSE IF format_opt # None THEN format_opt[1].duration
    ELSE None

\* num_samples: (duration * 8000.0) as i64 / PROGRESS_PRESCALER
num_samples(duration) == TruncDiv(TruncDiv(duration[1] * SampleRate, duration[2]), PROGRESS_PRESCALER)

\* a call of the ProgressHandler
ProgressCall(op, steps) == [op |-> op, steps |-> steps]

\* the locals of decode and of extract_audio_stream a run keeps
Locals(best_stream, duration) == [best_stream |-> best_stream, duration_str |-> duration, parser_state |-> None, progress_prescaler_counter |-> 0]

\* the map_err of decode on what extract_audio_stream returns
decode_map_err(result) == IF result.kind = "Ok" THEN result ELSE Err("FailedExtractingAudio", None, <<>>)

\* (a decode that calls init() before it has looked for a stream, and finds none)
decode_init_first(e) == [ret |-> Some(Err("NoAudioStream", None, <<>>)), locals |-> Locals(None, None), progress |-> <<ProgressCall("init", 0)>>, spawned |-> FALSE]

\* decode up to the first read() of extract_audio_stream: what it returns (None
\* when it goes on to read), its locals, the calls of the progress handler and
\* whether the decode process was spawned
decode(e) ==
    LET metadata == get_metadata(e.probe)
        best == best_stream_opt(metadata.value, e.audio_index)
        ds == duration_str(best[1], metadata.value.format)
        duration == parse_f64(ds[1])
        returned(err, b, d) == [ret |-> Some(err), locals |-> Locals(b, d), progress |-> <<>>, spawned |-> FALSE]
    IN  IF ~metadata.ok THEN returned(Err("ExtractingMetadataFailed", None, <<>>), None, None)
        ELSE IF best = None THEN returned(Err("NoAudioStream", None, <<>>), None, None)
        ELSE IF ds = None THEN returned(Err("NoDurationInformation", None, <<>>), best, None)
        ELSE IF duration = None THEN returned(Err("FailedToParseDuration", None, ds[1]), best, ds)
        ELSE [ret |-> IF e.spawns THEN None ELSE Some(decode_map_err(Err("FailedSpawningSubprocess", None, <<>>))),
              locals |-> Locals(best, ds),
              progress |-> <<ProgressCall("init", num_samples(duration[1]))>>,
              spawned |-> e.spawns]

\* (a read_i16 that takes the first byte for the high one)
read_i16_big_endian(two_bytes) == LET u == 256 * two_bytes[1] + two_bytes[2] IN IF u >= 32768 THEN u - 65536 ELSE u

\* byteorder::LittleEndian::read_i16
read_i16(two_bytes) == LET u == two_bytes[1] + 256 * two_bytes[2] IN IF u >= 32768 THEN u - 65536 ELSE u

RECURSIVE extract_bytes(_, _, _, _, _)
\* the for loop of extract_audio_stream over the bytes of one read(); calls
\* and incs are the calls of the receiver and of the progress handler made so
\* far in it, fail is the number of the push_samples call that returns Err
\* (0 when none does)
extract_bytes(self, bytes, calls, incs, fail) ==
    IF bytes = <<>> THEN [self |-> self, calls |-> calls, progress |-> incs, result |-> None]
    ELSE IF self.parser_state = None THEN extract_bytes([self EXCEPT !.parser_state = Some(Head(bytes))], Tail(bytes), calls, incs, fail)
    ELSE
        LET sample == read_i16(<<self.parser_state[1], Head(bytes)>>)
            ok == Len(calls) + 1 # fail
            pushed == Append(calls, ReceiverCall("push_samples", <<sample>>, ok))
            counted == self.progress_prescaler_counter = PROGRESS_PRESCALER
        IN  IF ~ok THEN [self |-> self, calls |-> pushed, progress |-> incs, result |-> Some(Err("AudioSegmentProcessingFailed", None, <<>>))]
            ELSE extract_bytes([self EXCEPT !.parser_state = None, !.progress_prescaler_counter = (IF counted THEN 0 ELSE @) + 1],
                               Tail(bytes), pushed, IF counted THEN Append(incs, ProgressCall("inc", 0)) ELSE incs, fail)

\* (an exit that finishes the receiver whatever the exit code)
extract_exited_any_code(self, code, push_ok, finish_ok, stderr_ok, stderr) ==
    [self |-> self, calls |-> <<ReceiverCall("push_samples", <<>>, TRUE), ReceiverCall("finish", <<>>, finish_ok)>>,
     progress |-> <<ProgressCall("finish", 0)>>, stderr |-> None,
     result |-> Some(IF finish_ok THEN Ok ELSE Err("AudioSegmentProcessingFailed", None, <<>>))]

\* (an exit that calls nothing and succeeds)
extract_exited_silent(self, code, push_ok, finish_ok, stderr_ok, stderr) == [self |-> self, calls |-> <<>>, progress |-> <<>>, stderr |-> None, result |-> Some(Ok)]

\* the read_bytes == 0 branch of extract_audio_stream once wait() has returned
\* the exit code: the push of data2 (which is empty) and the finish of the
\* receiver return push_ok and finish_ok, the stderr is read unless stderr_ok
\* is false
extract_exited(self, code, push_ok, finish_ok, stderr_ok, stderr) ==
    IF code = Some(0) THEN
        IF ~push_ok THEN [self |-> self, calls |-> <<ReceiverCall("push_samples", <<>>, FALSE)>>, progress |-> <<>>, stderr |-> None,
                          result |-> Some(Err("AudioSegmentProcessingFailed", None, <<>>))]
        ELSE [self |-> self, calls |-> <<ReceiverCall("push_samples", <<>>, TRUE), ReceiverCall("finish", <<>>, finish_ok)>>,
              progress |-> <<ProgressCall("finish", 0)>>, stderr |-> None,
              result |-> Some(IF finish_ok THEN Ok ELSE Err("AudioSegmentProcessingFailed", None, <<>>))]
    ELSE IF ~stderr_ok THEN [self |-> self, calls |-> <<>>, progress |-> <<>>, stderr |-> None, result |-> Some(Err("ReadError", None, <<>>))]
    ELSE [self |-> self, calls |-> <<>>, progress |-> <<>>, stderr |-> Some(stderr),
          result |-> Some(IF stderr = <<>> THEN Err("ProcessErrorCode", code, <<>>) ELSE Err("ProcessErrorMessage", None, stderr))]

\* the bytes the decode process writes: n bytes, the pattern p over and over
Stdout(n, p) == [i \in 1 .. n |-> p[((i - 1) % Len(p)) + 1]]

\* how many bytes it writes: a few, or the bytes of the samples around a
\* multiple of the prescaler
StdoutLens == (0 .. 3) \cup {2 * (PROGRESS_PRESCALER * k + j) : k \in 1 .. MaxProgress, j \in {0, 1}}

\* the call of decode: nothing has happened yet
Called(e) ==
    /\ env = e
    /\ NoSignals /\ iter = None /\ out = <<>> /\ ret = None /\ pc = "start" /\ panic = ""
    /\ child = None /\ receiver = <<>> /\ progress = <<>> /\ samples = <<>>

\* the inputs: a probing process that does anything at all; any metadata with
\* a decode process that writes one sample; or the metadata of one audio
\* stream with a decode process that writes anything
InitDecode ==
    \/ \E probe \in [spawned : BOOLEAN, code : ExitCodes, stderr : Texts, utf8 : BOOLEAN, json : BOOLEAN, metadata : {[streams |-> <<>>, format |-> None]}] :
         Called([audio_index |-> None, probe |-> probe, spawns |-> TRUE, stdout |-> <<>>])
    \/ \E n \in 0 .. MaxStreams, format \in Formats, ai \in 0 .. (MaxStreams + 1) : \E streams \in [1 .. n -> Streams] :
         Called([audio_index |-> IF ai = 0 THEN None ELSE Some(ai - 1), probe |-> Probed(streams, format), spawns |-> TRUE, stdout |-> <<1, 255>>])
    \/ \E d \in {"0.025", "0.05"}, spawns \in BOOLEAN, n \in StdoutLens, p \in [1 .. 3 -> Bytes] :
         Called([audio_index |-> None, probe |-> Probed(<<[index |-> 0, channels |-> Some(2), duration |-> Some(d), codec_type |-> "Audio"]>>, None),
                 spawns |-> spawns, stdout |-> Stdout(n, p)])

\* the call of decode up to the first read() of extract_audio_stream
Decode ==
    /\ pc = "start"
    /\ LET r == decode(env)
       IN  /\ iter' = Some(r.locals)
           /\ progress' = r.progress
           /\ child' = IF r.spawned THEN Some([read |-> 0, wait |-> "", code |-> None, stderr |-> None]) ELSE None
           /\ ret' = r.ret
           /\ pc' = IF r.ret = None THEN "iter" ELSE "done"
    /\ UNCHANGED <<segment_vars, env, receiver, samples, panic>>

\* the end of a turn of the loop of extract_audio_stream, which has left the
\* decode process as ch: the loop goes on, or the function and decode return
Extracted(r, ch) ==
    /\ iter' = Some(r.self)
    /\ receiver' = receiver \o r.calls
    /\ progress' = progress \o r.progress
    /\ child' = Some(ch)
    /\ ret' = IF r.result = None THEN None ELSE Some(decode_map_err(r.result[1]))
    /\ pc' = IF r.result = None THEN "iter" ELSE "done"

\* one turn of the loop of extract_audio_stream: the read() and what follows it
ExtractRead ==
    /\ pc = "iter"
    /\ LET self == iter[1]
           ch == child[1]
           remaining == Len(env.stdout) - ch.read
           returns(err) == [self |-> self, calls |-> <<>>, progress |-> <<>>, result |-> Some(Err(err, None, <<>>))]
       IN  \E read_ok \in BOOLEAN :
            IF ~read_ok THEN Extracted(returns("ReadError"), ch)
            ELSE IF remaining > 0 THEN
                \E k \in 1 .. Min(MaxRead, remaining) : \E fail \in 0 .. ((k + 1) \div 2) :
                    Extracted(extract_bytes(self, SubSeq(env.stdout, ch.read + 1, ch.read + k), <<>>, <<>>, fail), [ch EXCEPT !.read = @ + k])
            ELSE
                \E wait_ok \in BOOLEAN :
                    IF ~wait_ok THEN Extracted(returns("WaitingForProcessFailed"), [ch EXCEPT !.wait = "Err"])
                    ELSE \E code \in ExitCodes, push_ok \in BOOLEAN, finish_ok \in BOOLEAN, stderr_ok \in BOOLEAN, stderr \in Texts :
                        LET r == extract_exited(self, code, push_ok, finish_ok, stderr_ok, stderr)
                        IN  Extracted(r, [ch EXCEPT !.wait = "Ok", !.code = code, !.stderr = r.stderr])
    /\ UNCHANGED <<segment_vars, env, samples, panic>>

NextDecode == Decode \/ ExtractRead

SpecDecode == InitDecode /\ [][NextDecode]_vars

\* the number of calls of op in a sequence of calls
Count(calls, op) == Cardinality({i \in DOMAIN calls : calls[i].op = op})

\* decode has returned
DecodeReturned == pc = "done" /\ env # None

\* C15: when the decode process has exited with a code other than 0, decode
\* returns ProcessErrorCode with the exit code if the stderr read is empty and
\* ProcessErrorMessage with the text read if it is not.
C15_ProcessErrors ==
    DecodeReturned /\ child # None /\ child[1].wait = "Ok" /\ child[1].code # Some(0) /\ child[1].stderr # None =>
        IF child[1].stderr[1] = <<>> THEN ret[1].kind = "ProcessErrorCode" /\ ret[1].code = child[1].code
        ELSE ret[1].kind = "ProcessErrorMessage" /\ ret[1].msg = child[1].stderr[1]

\* C16: the duration decode uses is the one of the selected stream's entry when
\* that has one and else the one of the format entry (it is what init() is
\* called with, or what fails to parse); when neither has one, decode returns
\* NoDurationInformation and no decode process has been spawned.
C16_Duration ==
    iter # None /\ iter[1].best_stream # None =>
        LET stream == iter[1].best_stream[1]
            format == env.probe.metadata.format
            taken == IF stream.duration # None THEN stream.duration
                     ELSE IF format # None /\ format[1].duration # None THEN format[1].duration
                     ELSE None
        IN  IF taken = None THEN pc = "done" /\ ret[1].kind = "NoDurationInformation" /\ child = None /\ progress = <<>> /\ receiver = <<>>
            ELSE IF parse_f64(taken[1]) = None THEN pc = "done" /\ ret[1].kind = "FailedToParseDuration" /\ ret[1].msg = taken[1]
            ELSE progress # <<>> /\ progress[1] = ProgressCall("init", num_samples(parse_f64(taken[1])[1]))

\* a decode that succeeded on the duration of the format entry, the selected
\* stream having none
C16_Witness ==
    /\ DecodeReturned /\ ret[1].kind = "Ok"
    /\ iter[1].best_stream[1].duration = None /\ Len(env.probe.metadata.streams) = 2
    /\ progress[1].steps = 2

\* the places in the stream list of the audio streams that have a channel count
AudioPlaces == {i \in DOMAIN env.probe.metadata.streams : env.probe.metadata.streams[i].codec_type = "Audio" /\ env.probe.metadata.streams[i].channels # None}

\* the places of the audio streams with the fewest channels
FewestPlaces == {i \in AudioPlaces : \A j \in AudioPlaces : env.probe.metadata.streams[j].channels[1] >= env.probe.metadata.streams[i].channels[1]}

\* C17, as stated: with no audio_index, the stream decode selects is an audio
\* stream with the fewest channels and, among those, the one with the lowest
\* stream index, whatever the order of the stream list.
C17_FewestChannelsLowestIndex ==
    iter # None /\ env.audio_index = None /\ AudioPlaces # {} =>
        /\ iter[1].best_stream # None
        /\ \E i \in FewestPlaces : iter[1].best_stream[1] = env.probe.metadata.streams[i]
        /\ \A j \in FewestPlaces : env.probe.metadata.streams[j].index >= iter[1].best_stream[1].index

\* C17, amended: with no audio_index, the stream decode selects is, among the
\* audio streams that have a channel count, the first in the stream list of
\* those with the fewest channels; it is the one of them with the lowest
\* stream index when the list is in increasing order of stream index.
C17_FewestChannelsFirstListed ==
    iter # None /\ env.audio_index = None /\ AudioPlaces # {} =>
        LET streams == env.probe.metadata.streams
            first == CHOOSE i \in FewestPlaces : \A j \in FewestPlaces : j >= i
        IN  /\ iter[1].best_stream = Some(streams[first])
            /\ (\A i \in DOMAIN streams : \A j \in DOMAIN streams : i < j => streams[i].index < streams[j].index) =>
                    \A j \in FewestPlaces : streams[j].index >= iter[1].best_stream[1].index

\* a decode that succeeded on the first listed of two audio streams of equally
\* few channels, which has the higher stream index
C17_Witness ==
    /\ DecodeReturned /\ ret[1].kind = "Ok" /\ env.audio_index = None
    /\ Cardinality(FewestPlaces) = 2
    /\ env.probe.metadata.streams[1].index = 1 /\ env.probe.metadata.streams[2].index = 0
    /\ iter[1].best_stream = Some(env.probe.metadata.streams[1])

\* C18: when decode has returned after spawning the decode process (wait()
\* itself not having failed), the process has been waited on.
C18_ChildReleased ==
    DecodeReturned /\ child # None /\ child[1].wait # "Err" => child[1].wait = "Ok"

\* the samples the decode process wrote
Emitted == Len(env.stdout) \div 2

\* C19: when decode has succeeded and the decode process wrote exactly
\* duration * 8000 samples, inc() has been called as many times as the steps
\* handed to init().
C19_IncSteps ==
    DecodeReturned /\ ret[1].kind = "Ok" =>
        LET duration == parse_f64(iter[1].duration_str[1])[1]
        IN  Emitted = TruncDiv(duration[1] * SampleRate, duration[2]) => Count(progress, "inc") = progress[1].steps

\* the errors decode returns before it calls init()
EarlyErrors == {"ExtractingMetadataFailed", "NoAudioStream", "NoDurationInformation", "FailedToParseDuration"}

\* finish() has been called at most once and after every other call, and
\* exactly once when decode has succeeded
FinishLast ==
    /\ \A i \in DOMAIN progress : progress[i].op = "finish" => i = Len(progress)
    /\ DecodeReturned /\ ret[1].kind = "Ok" => Count(progress, "finish") = 1

\* C20, as stated: in every run of decode init() is called exactly once and
\* before any inc(); finish() is called at most once, after the last inc(),
\* and exactly once when decode succeeds.
C20_ProgressOrder ==
    /\ DecodeReturned => Count(progress, "init") = 1
    /\ \A i \in DOMAIN progress : progress[i].op = "init" <=> i = 1
    /\ FinishLast

\* C20, amended: init() is called at most once and before any inc() or
\* finish(): exactly once in a run that has selected a stream and parsed a
\* duration, never in a run that returns before (no metadata, no audio stream,
\* no duration or one that does not parse); finish() is called at most once,
\* after the last inc(), and exactly once when decode succeeds.
C20_ProgressOrderOnceStarted ==
    /\ DecodeReturned => Count(progress, "init") = (IF ret[1].kind \in EarlyErrors THEN 0 ELSE 1)
    /\ \A i \in DOMAIN progress : progress[i].op = "init" <=> i = 1
    /\ FinishLast

\* a decode that succeeded with calls of inc() between init() and finish()
C20_Witness ==
    /\ DecodeReturned /\ ret[1].kind = "Ok"
    /\ Count(progress, "inc") = 2 /\ Len(progress) = 4

----------------------------------------------------------------------------
(* add_ratings_from and combined_maximum_of_dual_iterators on inputs that do
   not cover the same span *)


\* the one offset the inputs of these runs carry
NoOffset == OffsetInfo_constant(0)

\* the second input is a rating signal (add_ratings_from) or a dual signal
\* (combined_maximum_of_dual_iterators); an empty buffer is both
IsRatingBuffer(b) == \A i \in DOMAIN b : "rating" \in DOMAIN b[i].data
IsDualBuffer(b) == \A i \in DOMAIN b : "rating_info" \in DOMAIN b[i].data

\* each input well-formed in itself, with any start, any length (0: no
\* segment) and any end
InitUnequal ==
    /\ \E s2 \in Starts, len1 \in 0 .. MaxLen, len2 \in 0 .. MaxLen, dual \in BOOLEAN :
         \E n1 \in (IF len1 = 0 THEN {0} ELSE 1 .. Min(MaxPairSegs, len1)), n2 \in (IF len2 = 0 THEN {0} ELSE 1 .. Min(MaxPairSegs, len2)) :
            \E e1 \in (IF n1 = 0 THEN {<<>>} ELSE EndSeqs(0, len1, n1)), e2 \in (IF n2 = 0 THEN {<<>>} ELSE EndSeqs(s2, len2, n2)), d1 \in [1 .. n1 -> RatingInfos], d2 \in [1 .. n2 -> RatingInfos] :
               TwoInputs(WithOffsets(Signal(0, e1, d1), NoOffset), IF dual THEN WithOffsets(Signal(s2, e2, d2), NoOffset) ELSE Signal(s2, e2, d2))
    /\ epsilon = 0
    /\ Fresh

UnequalAddRatingsFrom == IsRatingBuffer(sig2[1].buffer) /\ AddRatingsFrom
UnequalAdderNext == pc = "iter" /\ "stored_segment" \notin DOMAIN iter[1] /\ AdderNext
UnequalCombinedMaximum == IsDualBuffer(sig2[1].buffer) /\ CombinedMaximumOfDualIterators
UnequalCMaxNext == pc = "iter" /\ "stored_segment" \in DOMAIN iter[1] /\ CMaxNext

NextUnequal == UnequalAddRatingsFrom \/ UnequalAdderNext \/ UnequalCombinedMaximum \/ UnequalCMaxNext

SpecUnequal == InitUnequal /\ [][NextUnequal]_vars

\* the consumer calls next() until it returns None
FairUnequal == SpecUnequal /\ WF_vars(NextUnequal)

\* what the two operators require of their inputs
DifferentStarts == sig1.start # sig2[1].start
EmptyInput == sig1.buffer = <<>> \/ sig2[1].buffer = <<>>
DifferentEnds == ~EmptyInput /\ SignalEnd(sig1) # SignalEnd(sig2[1])

\* C21: add_ratings_from and combined_maximum_of_dual_iterators panic when
\* the inputs have different starts or one of them is empty (in the
\* constructor, before any segment is returned) and when the final end points
\* differ (no run on such inputs returns None, every one ends in a panic);
\* no segment that reaches beyond the end of the shorter input is returned.
C21_UnequalInputsPanic ==
    /\ [](DifferentStarts \/ EmptyInput => pc \in {"start", "panic"} /\ iter = None /\ out = <<>>)
    /\ [](DifferentEnds => pc # "done" /\ \A i \in DOMAIN out : out[i].span.end <= Min(SignalEnd(sig1), SignalEnd(sig2[1])))
    /\ (DifferentStarts \/ EmptyInput \/ DifferentEnds ~> pc = "panic")

\* a run of the combined maximum on inputs of unequal length that returned a
\* segment and then panicked
C21_Witness == DifferentEnds /\ ~DifferentStarts /\ pc = "panic" /\ out # <<>> /\ IsDualBuffer(sig2[1].buffer)

----------------------------------------------------------------------------
(* DualIterator::save_separate: one pass over the dual segments that feeds,  *)
(* through a DualPushIterator, the rating pipeline                           *)
(*   only_ratings -> SimplifyRating -> discard_start_times ->                *)
(*   AggressiveSimplifyRating -> discard_start_times -> collect_to_vec       *)
(* and the offset pipeline                                                   *)
(*   only_offsets -> SimplifyOffset -> discard_start_times -> collect_to_vec *)

as_rating_segment(dual_segment) == [end_point |-> dual_segment.end_point, data |-> dual_segment.data.rating_info]
as_offset_segment(dual_segment) == [end_point |-> dual_segment.end_point, data |-> dual_segment.data.offset_info]

\* DualIterator::only_ratings and only_offsets
only_ratings(sig) == [start |-> sig.start, buffer |-> [i \in DOMAIN sig.buffer |-> as_rating_segment(sig.buffer[i])]]
only_offsets(sig) == [start |-> sig.start, buffer |-> [i \in DOMAIN sig.buffer |-> as_offset_segment(sig.buffer[i])]]

simplifiy_offsets_push_iter(start) == [start |-> start, current_segment |-> None]

\* push(): the iterator afterwards and what it pushed downstream
SimplifyOffsetPushIterator_push(self, next_segment) ==
    IF self.current_segment = None THEN [self |-> [self EXCEPT !.current_segment = Some(Segment_with_start_point(next_segment, self.start))], pushed |-> <<>>]
    ELSE
        LET current_segment == self.current_segment[1]
        IN  IF current_segment.data.drag = next_segment.data.drag
               /\ OffsetInfo_exclusive_end_offset(current_segment.data, PointSpan_len(current_segment.span)) = next_segment.data.offset
            THEN [self |-> [self EXCEPT !.current_segment = Some([current_segment EXCEPT !.span.end = next_segment.end_point])], pushed |-> <<>>]
            ELSE [self |-> [self EXCEPT !.current_segment = Some(Segment_with_start_point(next_segment, current_segment.span.end))], pushed |-> <<current_segment>>]

\* finish(): what it pushes downstream before the downstream finish
SimplifyOffsetPushIterator_finish(self) == self.current_segment

\* the first sink of save_separate, from the exact simplification down to
\* its vector: what a segment pushed into the aggressive stage leaves behind
iter1_collect(self, a) ==
    LET c == discard_start_times_push_iter(self.v, a.pushed)
    IN  [self |-> [self EXCEPT !.aggressive = a.self, !.v = c.v], panic |-> c.panic]

iter1_aggressive(self, pushed) ==
    LET d == discard_start_times_push_iter(<<>>, pushed)
    IN  IF d.panic # "" THEN [self |-> self, panic |-> d.panic]
        ELSE IF d.v = <<>> THEN [self |-> self, panic |-> ""]
        ELSE iter1_collect(self, AggressiveSimplifyRatingPushIterator_push(self.aggressive, d.v[1]))

iter1_push(self, rating_segment) ==
    LET r == SimplifyRatingPushIterator_push(self.simplify, rating_segment)
    IN  iter1_aggressive([self EXCEPT !.simplify = r.self], r.pushed)

\* finish(): the exact stage pushes its segment (r is what that left behind),
\* then the aggressive stage pushes its own and the vector is returned
iter1_finished(r) ==
    IF r.panic # "" THEN [v |-> r.self.v, panic |-> r.panic]
    ELSE discard_start_times_push_iter(r.self.v, AggressiveSimplifyRatingPushIterator_finish(r.self.aggressive))

iter1_finish(self) == iter1_finished(iter1_aggressive(self, SimplifyRatingPushIterator_finish(self.simplify)))

\* the second sink of save_separate
iter2_push(self, offset_segment) ==
    LET r == SimplifyOffsetPushIterator_push(self.simplify, offset_segment)
        c == discard_start_times_push_iter(self.v, r.pushed)
    IN  [self |-> [simplify |-> r.self, v |-> c.v], panic |-> c.panic]

iter2_finish(self) == discard_start_times_push_iter(self.v, SimplifyOffsetPushIterator_finish(self.simplify))

\* dual_push_iter over the two sinks, as save_separate builds it
dual_push_iter(start, max_diff) ==
    [iter1 |-> [simplify |-> simplifiy_ratings_push_iter(start), aggressive |-> aggressive_simplifiy_ratings_push_iter(start, max_diff), v |-> <<>>],
     iter2 |-> [simplify |-> simplifiy_offsets_push_iter(start), v |-> <<>>]]

\* the rest of push() once self.iter1.push(item.clone()) has returned r1
DualPushIterator_push_iter2(self, item, r1) ==
    LET r2 == iter2_push(self.iter2, as_offset_segment(item))
    IN  IF r1.panic # "" THEN [self |-> [self EXCEPT !.iter1 = r1.self], panic |-> r1.panic]
        ELSE [self |-> [iter1 |-> r1.self, iter2 |-> r2.self], panic |-> r2.panic]

\* (a push that forgets the second sink)
DualPushIterator_keep_iter2(self, r1) == [self |-> [self EXCEPT !.iter1 = r1.self], panic |-> r1.panic]
DualPushIterator_push_first_only(self, item) == DualPushIterator_keep_iter2(self, iter1_push(self.iter1, as_rating_segment(item)))

\* push(): the item goes to iter1, then to iter2
DualPushIterator_push(self, item) == DualPushIterator_push_iter2(self, item, iter1_push(self.iter1, as_rating_segment(item)))

\* the rest of finish() once self.iter1.finish() has returned r1
DualPushIterator_finish_iter2(self, r1) ==
    LET r2 == iter2_finish(self.iter2)
    IN  IF r1.panic # "" THEN [output |-> None, panic |-> r1.panic]
        ELSE IF r2.panic # "" THEN [output |-> None, panic |-> r2.panic]
        ELSE [output |-> Some(<<r1.v, r2.v>>), panic |-> ""]

\* finish(): (self.iter1.finish(), self.iter2.finish())
DualPushIterator_finish(self) == DualPushIterator_finish_iter2(self, iter1_finish(self.iter1))

InitSeparate ==
    /\ \E s \in Starts, len \in 1 .. MaxLen : \E n \in 1 .. Min(MaxSegs, len) : \E e \in EndSeqs(s, len, n), d \in [1 .. n -> DualInfos] :
         OneInput(Signal(s, e, d), Signal(s, e, d).buffer)
    /\ epsilon \in Epsilons
    /\ Fresh

\* save_separate up to the for loop of into_push_iter
SaveSeparate ==
    /\ pc = "start"
    /\ iter' = Some(dual_push_iter(sig1.start, epsilon))
    /\ pc' = "iter"
    /\ UNCHANGED <<decoder_vars, sig1, sig2, epsilon, input_iter1, input_iter2, out, ret, panic>>

\* the caller's side of a push that returned r
SeparatePushed(r) ==
    /\ iter' = Some(r.self)
    /\ panic' = r.panic
    /\ pc' = IF r.panic # "" THEN "panic" ELSE "iter"

\* the caller's side of finish(): the two vectors become the SeparateDualBuffer
SeparateFinished(r) ==
    /\ panic' = r.panic
    /\ pc' = IF r.panic # "" THEN "panic" ELSE "done"
    /\ ret' = IF r.panic # "" THEN None
              ELSE Some([rating_buffer |-> [start |-> sig1.start, buffer |-> r.output[1][1]], offset_buffer |-> [start |-> sig1.start, buffer |-> r.output[1][2]]])

\* one turn of the for loop of into_push_iter
SeparatePush ==
    /\ pc = "iter" /\ input_iter1 # <<>>
    /\ SeparatePushed(DualPushIterator_push(iter[1], Head(input_iter1)))
    /\ input_iter1' = Tail(input_iter1)
    /\ UNCHANGED <<decoder_vars, sig1, sig2, epsilon, input_iter2, out, ret>>

\* the end of into_push_iter, iter.finish(), and the SeparateDualBuffer
SeparateFinish ==
    /\ pc = "iter" /\ input_iter1 = <<>>
    /\ SeparateFinished(DualPushIterator_finish(iter[1]))
    /\ iter' = None
    /\ UNCHANGED <<decoder_vars, sig1, sig2, epsilon, input_iter1, input_iter2, out>>

NextSeparate == SaveSeparate \/ SeparatePush \/ SeparateFinish

SpecSeparate == InitSeparate /\ [][NextSeparate]_vars

RECURSIVE into_push_iter_aggressive(_, _, _)
\* into_push_iter over the pipeline of save_aggressively_simplified: the vector collected
into_push_iter_aggressive(self, v, it) ==
    IF it = <<>> THEN discard_start_times_push_iter(v, AggressiveSimplifyRatingPushIterator_finish(self)).v
    ELSE into_push_iter_aggressive(AggressiveSimplifyRatingPushIterator_push(self, Head(it)).self, discard_start_times_push_iter(v, AggressiveSimplifyRatingPushIterator_push(self, Head(it)).pushed).v, Tail(it))

\* RatingIterator::save_aggressively_simplified as one function of the signal
save_aggressively_simplified(sig, max_diff) == [start |-> sig.start, buffer |-> into_push_iter_aggressive(aggressive_simplifiy_ratings_push_iter(sig.start, max_diff), <<>>, sig.buffer)]

RECURSIVE into_push_iter_offsets(_, _, _)
\* into_push_iter over simplifiy_offsets_push_iter, discard_start_times and collect_to_vec
into_push_iter_offsets(self, v, it) ==
    IF it = <<>> THEN discard_start_times_push_iter(v, SimplifyOffsetPushIterator_finish(self)).v
    ELSE into_push_iter_offsets(SimplifyOffsetPushIterator_push(self, Head(it)).self, discard_start_times_push_iter(v, SimplifyOffsetPushIterator_push(self, Head(it)).pushed).v, Tail(it))

\* the offset simplification applied to a whole offset signal
simplify_offsets(sig) == [start |-> sig.start, buffer |-> into_push_iter_offsets(simplifiy_offsets_push_iter(sig.start), <<>>, sig.buffer)]

\* C22: save_separate(epsilon) never panics on a well-formed dual signal; its
\* rating_buffer is what the exact simplification followed by the aggressive
\* simplification with epsilon makes of only_ratings of the signal, each run
\* to its end on its own, and its offset_buffer is what the offset
\* simplification makes of only_offsets of the signal.
C22_SaveSeparate ==
    /\ pc # "panic"
    /\ pc = "done" =>
        /\ ret[1].rating_buffer = save_aggressively_simplified(save_simplified(only_ratings(sig1)), epsilon)
        /\ ret[1].offset_buffer = simplify_offsets(only_offsets(sig1))

\* a finished run with epsilon > 0 in which both sinks merged segments, and
\* not the same ones
C22_Witness ==
    /\ pc = "done" /\ epsilon > 0 /\ Len(sig1.buffer) = 3
    /\ Len(ret[1].rating_buffer.buffer) = 1 /\ Len(ret[1].offset_buffer.buffer) = 2
    /\ Len(save_simplified(only_ratings(sig1)).buffer) = 2

----------------------------------------------------------------------------
(* SegmentIterator::annotate_with_segment_start_points followed by          *)
(* FullSegmentIterator::discard_start_times                                  *)

\* (a closure that never moves last_segment_end)
annotate_closure_stale(last_segment_end, segment) ==
    IF ~(last_segment_end < segment.end_point) THEN [last_segment_end |-> last_segment_end, result |-> None, panic |-> "assertion failed: *last_segment_end < segment.end_point"]
    ELSE [last_segment_end |-> last_segment_end, result |-> Some([span |-> PointSpan_new(last_segment_end, segment.end_point), data |-> segment.data]), panic |-> ""]

\* the closure handed to scan: the state afterwards and the full segment
annotate_closure(last_segment_end, segment) ==
    IF ~(last_segment_end < segment.end_point) THEN [last_segment_end |-> last_segment_end, result |-> None, panic |-> "assertion failed: *last_segment_end < segment.end_point"]
    ELSE [last_segment_end |-> segment.end_point, result |-> Some([span |-> PointSpan_new(last_segment_end, segment.end_point), data |-> segment.data]), panic |-> ""]

\* annotate_with_segment_start_points().discard_start_times(): the start is
\* handed on twice, scan starts from it; scanned keeps the full segments the
\* scan has produced
annotate_discard(start) == [start |-> start, last_segment_end |-> start, scanned |-> <<>>]

\* next() of the Map over the Scan; n is what the input's next() returns
AnnotateDiscardIterator_next(self, n) ==
    IF n = None THEN [self |-> self, item |-> None, panic |-> ""]
    ELSE
        LET r == annotate_closure(self.last_segment_end, n[1])
        IN  IF r.panic # "" THEN [self |-> self, item |-> None, panic |-> r.panic]
            ELSE [self |-> [self EXCEPT !.last_segment_end = r.last_segment_end, !.scanned = Append(self.scanned, r.result[1])],
                  item |-> Some(FullSegment_discard_start_time(r.result[1])), panic |-> ""]

InitAnnotate ==
    /\ \E s \in Starts, len \in 1 .. MaxLen : \E n \in 1 .. Min(MaxSegs, len) : \E e \in EndSeqs(s, len, n), d \in [1 .. n -> RatingInfos] :
         OneInput(Signal(s, e, d), Signal(s, e, d).buffer)
    /\ epsilon = 0
    /\ Fresh

AnnotateDiscard ==
    /\ pc = "start"
    /\ iter' = Some(annotate_discard(sig1.start))
    /\ pc' = "iter"
    /\ UNCHANGED <<decoder_vars, sig1, sig2, epsilon, input_iter1, input_iter2, out, ret, panic>>

AnnotateDiscardNext ==
    /\ pc = "iter"
    /\ LET r == AnnotateDiscardIterator_next(iter[1], IterNext(input_iter1))
       IN  /\ iter' = Some(r.self)
           /\ Returned(r)
    /\ input_iter1' = IterRest(input_iter1)
    /\ UNCHANGED <<decoder_vars, sig1, sig2, epsilon, input_iter2, ret>>

NextAnnotate == AnnotateDiscard \/ AnnotateDiscardNext

SpecAnnotate == InitAnnotate /\ [][NextAnnotate]_vars

\* C23: on a well-formed stream, annotate_with_segment_start_points followed
\* by discard_start_times never panics, keeps the start and returns the
\* segments (end_point, data) of the input in their order; every annotated
\* segment has the end point and data of its input segment and starts where
\* the one before it ended, the first at the start of the signal.
C23_AnnotateDiscard ==
    /\ pc # "panic"
    /\ pc \in {"iter", "done"} =>
        /\ iter[1].start = sig1.start
        /\ out = SubSeq(sig1.buffer, 1, Len(out))
        /\ Len(iter[1].scanned) = Len(out)
        /\ \A i \in DOMAIN iter[1].scanned :
            /\ iter[1].scanned[i].span.end = sig1.buffer[i].end_point /\ iter[1].scanned[i].data = sig1.buffer[i].data
            /\ iter[1].scanned[i].span.start = (IF i = 1 THEN sig1.start ELSE iter[1].scanned[i - 1].span.end)
    /\ pc = "done" => out = sig1.buffer /\ iter[1].scanned = annotate_with_segment_start_points(sig1)

\* an exhausted run over three segments
C23_Witness == pc = "done" /\ Len(out) = 3 /\ iter[1].scanned[3].span.start = sig1.buffer[2].end_point /\ sig1.start # 0

----------------------------------------------------------------------------
(* clamp_end applied to the iterator clamp_end returns *)

RECURSIVE clamp_end_save(_, _, _)
\* clamp_end(clamp).save() on the segments of it: the vector collect() builds
clamp_end_save(self, it, v) ==
    LET r == ClampEndIterator_next(self, IterNext(it))
    IN  IF r.item = None THEN v ELSE clamp_end_save(r.self, IterRest(it), Append(v, r.item[1]))

\* next() of clamp_end(c1).clamp_end(c2): the outer Map asks the inner one
ClampEndTwiceIterator_next(self, n) ==
    LET inner == ClampEndIterator_next(self[1], n)
        outer == ClampEndIterator_next(self[2], inner.item)
    IN  [self |-> <<inner.self, outer.self>>, item |-> outer.item, panic |-> outer.panic]

InitClampEndTwice ==
    /\ \E s \in Starts, len \in 1 .. MaxLen : \E n \in 1 .. Min(MaxSegs, len) : \E e \in EndSeqs(s, len, n), d \in [1 .. n -> RatingInfos] :
         OneInput(Signal(s, e, d), Signal(s, e, d).buffer)
    /\ epsilon = 0
    /\ Fresh

ClampEndTwice ==
    /\ pc = "start"
    /\ \E c1 \in ArgPoints(sig1), c2 \in ArgPoints(sig1) : iter' = Some(<<clamp_end(c1), clamp_end(c2)>>)
    /\ pc' = "iter"
    /\ UNCHANGED <<decoder_vars, sig1, sig2, epsilon, input_iter1, input_iter2, out, ret, panic>>

ClampEndTwiceNext ==
    /\ pc = "iter"
    /\ LET r == ClampEndTwiceIterator_next(iter[1], IterNext(input_iter1))
       IN  /\ iter' = Some(r.self)
           /\ Returned(r)
    /\ input_iter1' = IterRest(input_iter1)
    /\ UNCHANGED <<decoder_vars, sig1, sig2, epsilon, input_iter2, ret>>

NextClampEndTwice == ClampEndTwice \/ ClampEndTwiceNext

SpecClampEndTwice == InitClampEndTwice /\ [][NextClampEndTwice]_vars

\* C24: the segments clamp_end(c1).clamp_end(c2) returns are those of
\* clamp_end(c2).clamp_end(c1), and with c1 = c2 those of clamp_end(c1) alone.
C24_ClampEndTwice ==
    pc = "done" =>
        LET c1 == iter[1][1]
            c2 == iter[1][2]
        IN  /\ out = clamp_end_save(c1, clamp_end_save(c2, sig1.buffer, <<>>), <<>>)
            /\ c1 = c2 => out = clamp_end_save(c1, sig1.buffer, <<>>)

\* an exhausted run in which each of two different clamps cut a segment the
\* other one left alone or cut less
C24_Witness ==
    /\ pc = "done" /\ Len(out) = 3 /\ iter[1][1].clamp < iter[1][2].clamp /\ iter[1][2].clamp < SignalEnd(sig1)
    /\ out # sig1.buffer /\ clamp_end_save(iter[1][2], sig1.buffer, <<>>) # out

----------------------------------------------------------------------------
(* extend_to applied to the iterator extend_to returns *)

RECURSIVE extend_to_save(_, _, _)
\* extend_to(end_point).save() on the segments of it: the vector collect()
\* builds, None when an assertion fails
extend_to_save(self, it, v) ==
    LET r == ExtendToIterator_next(self, IterNext(it))
    IN  IF r.panic # "" THEN None
        ELSE IF r.item = None THEN Some(v)
        ELSE extend_to_save(r.self, IterRest(it), Append(v, r.item[1]))

\* next() of extend_to(end).extend_to(end): the outer iterator asks the inner one
ExtendToTwiceIterator_next(self, n) ==
    LET inner == ExtendToIterator_next(self[1], n)
        outer == ExtendToIterator_next(self[2], inner.item)
    IN  IF inner.panic # "" THEN [self |-> self, item |-> None, panic |-> inner.panic]
        ELSE [self |-> <<inner.self, outer.self>>, item |-> outer.item, panic |-> outer.panic]

InitExtendToTwice ==
    /\ \E s \in Starts, len \in 1 .. MaxLen : \E n \in 1 .. Min(MaxSegs, len) : \E e \in EndSeqs(s, len, n), d \in [1 .. n -> RatingInfos] :
         OneInput(Signal(s, e, d), Signal(s, e, d).buffer)
    /\ epsilon = 0
    /\ Fresh

ExtendToTwice ==
    /\ pc = "start"
    /\ \E end_point \in ArgPoints(sig1) : iter' = Some(<<extend_to(end_point), extend_to(end_point)>>)
    /\ pc' = "iter"
    /\ UNCHANGED <<decoder_vars, sig1, sig2, epsilon, input_iter1, input_iter2, out, ret, panic>>

ExtendToTwiceNext ==
    /\ pc = "iter"
    /\ LET r == ExtendToTwiceIterator_next(iter[1], IterNext(input_iter1))
       IN  /\ iter' = Some(r.self)
           /\ Returned(r)
    /\ input_iter1' = IterRest(input_iter1)
    /\ UNCHANGED <<decoder_vars, sig1, sig2, epsilon, input_iter2, ret>>

NextExtendToTwice == ExtendToTwice \/ ExtendToTwiceNext

SpecExtendToTwice == InitExtendToTwice /\ [][NextExtendToTwice]_vars

\* C25: on a signal that ends at or before end, extend_to(end).extend_to(end)
\* fails no assertion and returns the segments extend_to(end) alone returns.
C25_ExtendToTwice ==
    pc \in {"iter", "done", "panic"} /\ SignalEnd(sig1) <= iter[1][1].end_point =>
        /\ pc # "panic"
        /\ pc = "done" => Some(out) = extend_to_save(extend_to(iter[1][1].end_point), sig1.buffer, <<>>)

\* an exhausted run in which the inner extend_to appended a segment and the
\* outer one appended none
C25_Witness ==
    /\ pc = "done" /\ Len(out) = Len(sig1.buffer) + 1 /\ Len(sig1.buffer) >= 2
    /\ out[Len(out)] = [end_point |-> SignalEnd(sig1) + 1, data |-> [rating |-> 0, delta |-> 0]]

----------------------------------------------------------------------------
(* The full segments add_ratings_from, combined_maximum_of_dual_iterators   *)
(* and left_to_right_maximum return, on the well-formed inputs of each      *)

InitFull == InitAdd \/ InitCMax \/ InitLtr

\* which of the three operators the inputs are for
ForAdd == sig2 # None /\ IsRatingBuffer(sig2[1].buffer)
ForCMax == sig2 # None /\ IsDualBuffer(sig2[1].buffer)
ForLtr == sig2 = None

FullAddRatingsFrom == ForAdd /\ AddRatingsFrom
FullAdderNext == ForAdd /\ AdderNext
FullCombinedMaximum == ForCMax /\ CombinedMaximumOfDualIterators
FullCMaxNext == ForCMax /\ CMaxNext
FullLeftToRightMaximum == ForLtr /\ LeftToRightMaximum
FullLtrNext == ForLtr /\ LtrNext

NextFull == FullAddRatingsFrom \/ FullAdderNext \/ FullCombinedMaximum \/ FullCMaxNext \/ FullLeftToRightMaximum \/ FullLtrNext

SpecFull == InitFull /\ [][NextFull]_vars

\* C26: on well-formed inputs, add_ratings_from,
\* combined_maximum_of_dual_iterators and left_to_right_maximum fail no
\* assertion, and the full segments they return (a stored second part of a
\* split segment comes with the following call) have start < end, start where
\* the one before ended, the first at the start of the signal, and have
\* reached the final end point of the inputs when next() returns None.
C26_FullSegmentsWellFormed ==
    /\ pc # "panic"
    /\ \A i \in DOMAIN out :
        /\ out[i].span.start < out[i].span.end
        /\ out[i].span.start = (IF i = 1 THEN sig1.start ELSE out[i - 1].span.end)
    /\ pc = "done" => out # <<>> /\ out[Len(out)].span.end = SignalEnd(sig1)

\* an exhausted run of the combined maximum that split a span of its inputs
\* and returned the stored second part with the following call
C26_Witness ==
    /\ ForCMax /\ pc = "done" /\ Len(out) = 3
    /\ Len(sig1.buffer) = 2 /\ sig1.buffer[1].end_point = sig2[1].buffer[1].end_point
    /\ out[2].span.end < SignalEnd(sig1) /\ out[2].span.start = sig1.buffer[1].end_point

\* C27: with a clamp greater than the start of the signal, the end points of
\* the segments clamp_end returns are strictly increasing and the first one
\* is greater than the start, so no segment is empty.
C27_ClampEndKeepsInvariant ==
    pc \in {"iter", "done"} /\ iter[1].clamp > sig1.start =>
        \A i \in DOMAIN out : out[i].end_point > (IF i = 1 THEN sig1.start ELSE out[i - 1].end_point)

----------------------------------------------------------------------------
(* left_to_right_maximum on signals of few segments with a wider range of   *)
(* ratings and slopes, so that segments cross the best rating at every      *)
(* place and between two points                                             *)

\* ratings of these inputs lie in -WideRMax .. WideRMax, deltas in
\* -WideDMax .. WideDMax, the signals have at most WideLen points
WideRMax == 2
WideDMax == 2
WideLen == 4

WideRatingInfos == [rating : (0 - WideRMax) .. WideRMax, delta : (0 - WideDMax) .. WideDMax]

InitLtrWide ==
    /\ \E s \in Starts, len \in 1 .. WideLen : \E n \in 1 .. Min(MaxPairSegs, len) : \E e \in EndSeqs(s, len, n), d \in [1 .. n -> WideRatingInfos], oi \in {OffsetInfo_constant(0), [offset |-> 1, drag |-> TRUE]} :
         OneInput(WithOffsets(Signal(s, e, d), oi), annotate_with_segment_start_points(WithOffsets(Signal(s, e, d), oi)))
    /\ epsilon = 0
    /\ Fresh

SpecLtrWide == InitLtrWide /\ [][NextLtr]_vars

\* the segment the next call of next() takes from the input starts below the
\* best rating and ends above it
Case4 ==
    /\ pc = "iter" /\ iter[1].stored_segment = None /\ input_iter1 # <<>>
    /\ Head(input_iter1).data.rating_info.rating < iter[1].current_best_rating
    /\ RatingInfo_end_rating(Head(input_iter1).data.rating_info, PointSpan_len(Head(input_iter1).span)) > iter[1].current_best_rating

\* C28: no assertion of left_to_right_maximum fails.  When the segment next()
\* is about to take starts below the best rating and ends above it, switch =
\* div_by_delta_to_i64(best - start rating, delta) + 1 has 0 < switch < len,
\* the segment is at most the best rating on its first switch points and above
\* it at the next one; and the constant segment returned for it spans exactly
\* these first points, the rest of the segment being stored for the next call.
C28_SwitchInsideSegment ==
    /\ pc # "panic"
    /\ Case4 =>
        LET segment == Head(input_iter1)
            best == iter[1].current_best_rating
            switch == div_by_delta_to_i64(best - segment.data.rating_info.rating, segment.data.rating_info.delta) + 1
        IN  /\ 0 < switch /\ switch < PointSpan_len(segment.span)
            /\ \A k \in 0 .. (switch - 1) : RatingInfo_get_at(segment.data.rating_info, k) <= best
            /\ RatingInfo_get_at(segment.data.rating_info, switch) > best
    /\ pc = "iter" /\ iter[1].stored_segment # None =>
        LET constant == out[Len(out)]
            stored == iter[1].stored_segment[1]
            i == SegAt(sig1.start, sig1.buffer, constant.span.start)
        IN  /\ constant.span.start = SegStart(sig1.start, sig1.buffer, i)
            /\ constant.span.start < constant.span.end /\ constant.span.end = stored.span.start
            /\ stored.span.start < stored.span.end /\ stored.span.end = sig1.buffer[i].end_point
            /\ constant.data.rating_info.delta = 0
            /\ \A t \in Points(constant) : DualRatingAt(sig1, t) <= constant.data.rating_info.rating
            /\ DualRatingAt(sig1, stored.span.start) > constant.data.rating_info.rating
            /\ stored.data = DualDataAt(sig1, stored.span.start)

\* a segment that passes a best rating above zero between its second and its
\* third point has been split
C28_Witness ==
    /\ pc = "iter" /\ iter[1].stored_segment # None
    /\ PointSpan_len(out[Len(out)].span) = 2
    /\ DualRatingAt(sig1, out[Len(out)].span.end - 1) < out[Len(out)].data.rating_info.rating
    /\ out[Len(out)].data.rating_info.rating > 0

\* C29: over the segments left_to_right_maximum returns, the rating never
\* decreases from a point to a later one, and at every point it is at least
\* the rating of the input there; the segments of an exhausted run cover the
\* whole signal.
C29_NonDecreasingAboveInput ==
    /\ \A i \in DOMAIN out, j \in DOMAIN out : \A t \in Points(out[i]), u \in Points(out[j]) : t <= u => FullRating(out[i], t) <= FullRating(out[j], u)
    /\ \A i \in DOMAIN out : \A t \in Points(out[i]) : FullRating(out[i], t) >= DualRatingAt(sig1, t)
    /\ pc = "done" => Tiles(out, sig1.start, SignalEnd(sig1))

\* an exhausted run whose output rose, then stayed above an input that fell
C29_Witness ==
    /\ pc = "done" /\ Len(sig1.buffer) = 2
    /\ FullRating(out[1], sig1.start) < FullRating(out[Len(out)], SignalEnd(sig1) - 1)
    /\ FullRating(out[Len(out)], SignalEnd(sig1) - 1) > DualRatingAt(sig1, SignalEnd(sig1) - 1)
    /\ sig1.buffer[1].data.rating_info.delta > 0

\* the offset the segment seg carries at t is the offset of the input at a
\* point u <= t where the input has its largest rating over start .. t
CarriesArgMax(seg, t) == \E u \in sig1.start .. t : DualRatingAt(sig1, u) = RunningMax(sig1, t) /\ DualOffsetAt(sig1, u) = FullOffset(seg, t)

\* C30, as stated: at every point t of every segment left_to_right_maximum
\* returns, the offset carried is the offset of the input at some u <= t where
\* the input's rating is its largest over start .. t.
C30_OffsetIsArgMax ==
    \A i \in DOMAIN out : \A t \in Points(out[i]) : CarriesArgMax(out[i], t)

\* C30, amended: the same at every point t up to which the input has risen
\* above zero; while the largest rating of the input so far is zero or less,
\* the offset carried is such an offset or still the initial
\* current_best_timepoint, the start of the signal.
C30_OffsetIsArgMaxAboveZero ==
    \A i \in DOMAIN out : \A t \in Points(out[i]) :
        /\ RunningMax(sig1, t) > 0 => CarriesArgMax(out[i], t)
        /\ RunningMax(sig1, t) <= 0 => CarriesArgMax(out[i], t) \/ FullOffset(out[i], t) = sig1.start

\* an exhausted run in which the input rose above zero, fell, and the output
\* kept the offset of the highest point while the input carried another one
C30_Witness ==
    /\ pc = "done" /\ Len(sig1.buffer) >= 2
    /\ \E t \in SignalPoints(sig1) : RunningMax(sig1, t) > 0 /\ DualRatingAt(sig1, t) < RunningMax(sig1, t) /\ FullOffset(out[Len(out)], SignalEnd(sig1) - 1) # DualOffsetAt(sig1, t) /\ t = SignalEnd(sig1) - 1

----------------------------------------------------------------------------
(* left_to_right_maximum on signals whose offsets lie on both sides of the  *)
(* start of the signal                                                      *)

\* offsets of these inputs lie in -OMax .. OMax
SignedOffsetInfos == [offset : (0 - OMax) .. OMax, drag : BOOLEAN]

InitLtrSigned ==
    /\ \E s \in Starts, len \in 1 .. MaxLen : \E n \in 1 .. Min(MaxPairSegs, len) : \E e \in EndSeqs(s, len, n), d \in [1 .. n -> [offset_info : SignedOffsetInfos, rating_info : RatingInfos]] :
         OneInput(Signal(s, e, d), annotate_with_segment_start_points(Signal(s, e, d)))
    /\ epsilon = 0
    /\ Fresh

SpecLtrSigned == InitLtrSigned /\ [][NextLtr]_vars

\* the offset the input carries never decreases from a point to the next
InputOffsetNonDecreasing == \A t \in SignalPoints(sig1) : t + 1 \in SignalPoints(sig1) => DualOffsetAt(sig1, t) <= DualOffsetAt(sig1, t + 1)

\* the offset the returned segments carry never decreases from a point of P
\* to a later point of P
OutOffsetNonDecreasingOver(P) ==
    \A i \in DOMAIN out, j \in DOMAIN out : \A t \in Points(out[i]) \cap P, u \in Points(out[j]) \cap P : t <= u => FullOffset(out[i], t) <= FullOffset(out[j], u)

----------------------------------------------------------------------------
(* DualPushIterator over two sinks of any kind, fed by into_push_iter.  The *)
(* sinks here collect what they are given (CollectToVecPushIterator), any   *)
(* call of a sink may panic, and every call of a sink is written to out.    *)

collect_to_vec_push_iter == [v |-> <<>>]
CollectToVecPushIterator_push(self, item) == [v |-> Append(self.v, item)]
CollectToVecPushIterator_finish(self) == self.v

\* dual_push_iter(i1, i2)
dual_push_iter_of(i1, i2) == [iter1 |-> i1, iter2 |-> i2]

\* a call of a sink as out records it: the sink (1: iter1, 2: iter2), the
\* method, the item handed over (None for finish)
SinkCall(sink, op, item) == [sink |-> sink, op |-> op, item |-> item]

\* a sink's push that panics leaves the sink as it was
SinkPushed(sink, item, panics) == IF panics THEN sink ELSE CollectToVecPushIterator_push(sink, item)

\* (a push that serves the second sink first)
DualPushIterator_push_calls_swapped(self, calls, item, fail) ==
    [self |-> [iter1 |-> SinkPushed(self.iter1, item, FALSE), iter2 |-> SinkPushed(self.iter2, item, FALSE)],
     calls |-> calls \o <<SinkCall(2, "push", Some(item)), SinkCall(1, "push", Some(item))>>,
     panic |-> ""]

\* DualPushIterator::push with the calls it makes appended to calls; fail is
\* the sink whose push panics (0: neither)
DualPushIterator_push_calls(self, calls, item, fail) ==
    IF fail = 1 THEN [self |-> self, calls |-> Append(calls, SinkCall(1, "push", Some(item))), panic |-> "iter1.push"]
    ELSE [self |-> [iter1 |-> SinkPushed(self.iter1, item, FALSE), iter2 |-> SinkPushed(self.iter2, item, fail = 2)],
          calls |-> calls \o <<SinkCall(1, "push", Some(item)), SinkCall(2, "push", Some(item))>>,
          panic |-> IF fail = 2 THEN "iter2.push" ELSE ""]

\* DualPushIterator::finish with the calls it makes appended to calls
DualPushIterator_finish_calls(self, calls, fail) ==
    IF fail = 1 THEN [output |-> None, calls |-> Append(calls, SinkCall(1, "finish", None)), panic |-> "iter1.finish"]
    ELSE [output |-> IF fail = 2 THEN None ELSE Some(<<CollectToVecPushIterator_finish(self.iter1), CollectToVecPushIterator_finish(self.iter2)>>),
          calls |-> calls \o <<SinkCall(1, "finish", None), SinkCall(2, "finish", None)>>,
          panic |-> IF fail = 2 THEN "iter2.finish" ELSE ""]

InitFanOut ==
    /\ \E s \in Starts, len \in 1 .. MaxLen : \E n \in 1 .. Min(MaxSegs, len) : \E e \in EndSeqs(s, len, n), d \in [1 .. n -> RatingInfos] :
         OneInput(Signal(s, e, d), Signal(s, e, d).buffer)
    /\ epsilon = 0
    /\ Fresh

\* into_push_iter(v, dual_push_iter(..)) up to its for loop
FanOut ==
    /\ pc = "start"
    /\ iter' = Some(dual_push_iter_of(collect_to_vec_push_iter, collect_to_vec_push_iter))
    /\ pc' = "iter"
    /\ UNCHANGED <<decoder_vars, sig1, sig2, epsilon, input_iter1, input_iter2, out, ret, panic>>

\* the caller's side of a push that returned r
FanOutPushed(r) ==
    /\ iter' = Some(r.self)
    /\ out' = r.calls
    /\ panic' = r.panic
    /\ pc' = IF r.panic # "" THEN "panic" ELSE "iter"

\* the caller's side of a finish that returned r
FanOutFinished(r) ==
    /\ ret' = r.output
    /\ out' = r.calls
    /\ panic' = r.panic
    /\ pc' = IF r.panic # "" THEN "panic" ELSE "done"

\* one turn of the for loop of into_push_iter
FanOutPush ==
    /\ pc = "iter" /\ input_iter1 # <<>>
    /\ \E fail \in 0 .. 2 : FanOutPushed(DualPushIterator_push_calls(iter[1], out, Head(input_iter1), fail))
    /\ input_iter1' = Tail(input_iter1)
    /\ UNCHANGED <<decoder_vars, sig1, sig2, epsilon, input_iter2, ret>>

\* the end of into_push_iter: iter.finish()
FanOutFinish ==
    /\ pc = "iter" /\ input_iter1 = <<>>
    /\ \E fail \in 0 .. 2 : FanOutFinished(DualPushIterator_finish_calls(iter[1], out, fail))
    /\ iter' = None
    /\ UNCHANGED <<decoder_vars, sig1, sig2, epsilon, input_iter1, input_iter2>>

NextFanOut == FanOut \/ FanOutPush \/ FanOutFinish

SpecFanOut == InitFanOut /\ [][NextFanOut]_vars

\* the k-th call of a sink in a run over the items of sig1 that is not cut
\* short: item by item iter1.push, then iter2.push; then iter1.finish,
\* iter2.finish
FanOutCall(k) ==
    IF k <= 2 * Len(sig1.buffer) THEN SinkCall(2 - (k % 2), "push", Some(sig1.buffer[(k + 1) \div 2]))
    ELSE SinkCall(k - 2 * Len(sig1.buffer), "finish", None)

\* the items into_push_iter has taken from the source so far
Taken == SubSeq(sig1.buffer, 1, Len(sig1.buffer) - Len(input_iter1))

\* C32: the calls DualPushIterator makes on its sinks are, in order and
\* without a gap or a repetition, iter1.push(x), iter2.push(x) for each item x
\* in source order, then iter1.finish(), iter2.finish(): both sinks have been
\* given an item before into_push_iter takes the next one, finish comes only
\* after every item went to both sinks, each sink holds exactly the items
\* taken so far, once each, and a run that returns has made all the calls.
\* Only a panic of a sink cuts the calls short, behind the call that panicked.
C32_FanOutOrder ==
    /\ Len(out) <= 2 * Len(sig1.buffer) + 2
    /\ \A k \in DOMAIN out : out[k] = FanOutCall(k)
    /\ pc = "iter" => Len(out) = 2 * Len(Taken) /\ iter[1].iter1.v = Taken /\ iter[1].iter2.v = Taken
    /\ pc = "panic" /\ input_iter1 # <<>> => Len(out) \in {2 * Len(Taken) - 1, 2 * Len(Taken)}
    /\ pc = "done" => Len(out) = 2 * Len(sig1.buffer) + 2 /\ input_iter1 = <<>> /\ ret = Some(<<sig1.buffer, sig1.buffer>>)

\* a run over three items, not all the same, that returned
C32_Witness ==
    /\ pc = "done" /\ Len(sig1.buffer) = 3 /\ sig1.buffer[1].data # sig1.buffer[2].data
    /\ out[3] = SinkCall(1, "push", Some(sig1.buffer[2])) /\ out[4] = SinkCall(2, "push", Some(sig1.buffer[2]))
    /\ out[7] = SinkCall(1, "finish", None) /\ out[8] = SinkCall(2, "finish", None)

----------------------------------------------------------------------------
(* The samples extract_audio_stream hands to the receiver *)

\* the signed 16-bit value whose low byte is lo and whose high byte is hi
LittleEndian(lo, hi) == IF hi >= 128 THEN lo + 256 * hi - 65536 ELSE lo + 256 * hi

\* the k-th call of the receiver carried samples
SamplePush(k) == k \in DOMAIN receiver /\ receiver[k].samples # <<>>

\* C33: however the bytes the decode process writes are split over the
\* read() calls, the calls of push_samples that carry samples are the first
\* calls of the receiver, each carries one sample, and the k-th carries the
\* little-endian signed 16-bit value of the bytes 2k - 1 and 2k of the stream
\* (counted from 1).  Every pair of bytes read so far has been pushed when the
\* loop goes on to the next read(), a byte without its partner is held back
\* and never pushed, and a run that succeeds has pushed exactly the
\* floor(n / 2) samples of the n bytes written.
C33_SamplesLittleEndian ==
    child # None =>
        /\ \A k \in DOMAIN receiver : SamplePush(k) =>
            /\ receiver[k].op = "push_samples"
            /\ k > 1 => SamplePush(k - 1)
            /\ 2 * k <= child[1].read
            /\ receiver[k].samples = <<LittleEndian(env.stdout[2 * k - 1], env.stdout[2 * k])>>
        /\ pc = "iter" =>
            /\ Len(receiver) = child[1].read \div 2
            /\ receiver # <<>> => SamplePush(Len(receiver))
            /\ iter[1].parser_state = (IF child[1].read % 2 = 1 THEN Some(env.stdout[child[1].read]) ELSE None)
        /\ DecodeReturned /\ ret[1].kind = "Ok" =>
            /\ Len(receiver) = Len(env.stdout) \div 2 + 2
            /\ Len(receiver) > 2 => SamplePush(Len(receiver) - 2)
            /\ ~SamplePush(Len(receiver) - 1) /\ ~SamplePush(Len(receiver))

\* a run that succeeded on three bytes: one sample, a negative one whose low
\* byte is not its high byte, and the third byte left over
C33_Witness ==
    /\ DecodeReturned /\ ret[1].kind = "Ok" /\ Len(env.stdout) = 3
    /\ env.stdout[1] # env.stdout[2]
    /\ SamplePush(1) /\ ~SamplePush(2) /\ receiver[1].samples[1] < 0
    /\ iter[1].parser_state = Some(env.stdout[3])

----------------------------------------------------------------------------
(* OffsetBuffer::get_offset_at *)

RECURSIVE get_offset_at_loop(_, _, _, _)
\* the for loop of get_offset_at from the i-th segment on
get_offset_at_loop(self, i, segment_start, t) ==
    IF i > Len(self.buffer) THEN [offset |-> None, panic |-> "internal error: entered unreachable code"]
    ELSE IF t >= segment_start /\ t < self.buffer[i].end_point THEN
        [offset |-> Some(OffsetInfo_advanced_offset(self.buffer[i].data, t - segment_start)), panic |-> ""]
    ELSE get_offset_at_loop(self, i + 1, self.buffer[i].end_point, t)

OffsetBuffer_end_point(self) == IF self.buffer = <<>> THEN None ELSE Some(self.buffer[Len(self.buffer)].end_point)

OffsetBuffer_get_offset_at(self, t) ==
    IF OffsetBuffer_end_point(self) = None THEN [offset |-> None, panic |-> "called Option::unwrap() on a None value"]
    ELSE IF ~(t >= self.start /\ t < OffsetBuffer_end_point(self)[1]) THEN [offset |-> None, panic |-> "assertion failed: t >= self.start && t < self.end_point().unwrap()"]
    ELSE get_offset_at_loop(self, 1, self.start, t)

InitOffsetAt ==
    /\ \E s \in Starts, len \in 1 .. MaxLen : \E n \in 1 .. Min(MaxSegs, len) : \E e \in EndSeqs(s, len, n), d \in [1 .. n -> OffsetInfos] :
         OneInput(Signal(s, e, d), <<>>)
    /\ epsilon = 0
    /\ Fresh

\* a call get_offset_at(t), t anywhere from just before the start to the end
GetOffsetAt ==
    /\ pc = "start"
    /\ \E t \in (sig1.start - 1) .. SignalEnd(sig1) :
        LET r == OffsetBuffer_get_offset_at(sig1, t)
        IN  /\ iter' = Some([t |-> t])
            /\ ret' = r.offset
            /\ panic' = r.panic
            /\ pc' = IF r.panic = "" THEN "done" ELSE "panic"
    /\ UNCHANGED <<decoder_vars, sig1, sig2, epsilon, input_iter1, input_iter2, out>>

NextOffsetAt == GetOffsetAt

SpecOffsetAt == InitOffsetAt /\ [][NextOffsetAt]_vars

\* C34: get_offset_at(t) with start <= t < end returns, for the one segment
\* whose span holds t, offset + (t - segment start) when the segment drags
\* and its offset when it does not; it panics only for a t outside
\* [start, end), on its first assertion, never on unreachable!().
C34_GetOffsetAt ==
    pc # "start" =>
        LET t == iter[1].t
            inside == t >= sig1.start /\ t < SignalEnd(sig1)
        IN  /\ inside =>
                LET i == SegAt(sig1.start, sig1.buffer, t)
                    segment == sig1.buffer[i]
                IN  /\ pc = "done"
                    /\ \A j \in DOMAIN sig1.buffer : (t >= SegStart(sig1.start, sig1.buffer, j) /\ t < sig1.buffer[j].end_point) => j = i
                    /\ segment.data.drag => ret = Some(segment.data.offset + (t - SegStart(sig1.start, sig1.buffer, i)))
                    /\ ~segment.data.drag => ret = Some(segment.data.offset)
            /\ ~inside => pc = "panic" /\ panic = "assertion failed: t >= self.start && t < self.end_point().unwrap()"

\* a call for the last point of a signal of two segments whose last segment
\* drags and is longer than one point
C34_Witness ==
    /\ pc = "done" /\ Len(sig1.buffer) = 2 /\ iter[1].t = SignalEnd(sig1) - 1
    /\ sig1.buffer[2].data.drag /\ ret = Some(sig1.buffer[2].data.offset + 1)
    /\ sig1.buffer[1].data # sig1.buffer[2].data

----------------------------------------------------------------------------
(* combined_maximum_of_dual_iterators on signals with a wider range of      *)
(* ratings and slopes, so that the two inputs cross at every place and      *)
(* between two points                                                        *)

InitCMaxWide ==
    /\ \E len \in 1 .. WideLen : \E n1 \in 1 .. Min(MaxPairSegs, len) :
         \E e1 \in EndSeqs(0, len, n1), d1 \in [1 .. n1 -> WideRatingInfos], d2 \in WideRatingInfos :
            TwoInputs(WithOffsets(Signal(0, e1, d1), NoOffset), WithOffsets(Signal(0, <<len>>, <<d2>>), [offset |-> 1, drag |-> TRUE]))
    /\ epsilon = 0
    /\ Fresh

SpecCMaxWide == InitCMaxWide /\ [][NextCMax]_vars

\* the span the next call of next() considers: its length, and the ratings of
\* the two current segments at its first point
ConsideredLen == Min(iter[1].dual_seg1.end_point, iter[1].dual_seg2.end_point) - iter[1].segment_start
Current1 == iter[1].dual_seg1.data.rating_info
Current2 == iter[1].dual_seg2.data.rating_info

\* the two current segments cross inside the span the next call considers
Crossing ==
    /\ pc = "iter" /\ CMaxRuns(iter[1])
    /\ \/ Current1.rating > Current2.rating /\ RatingInfo_get_at(Current1, ConsideredLen - 1) < RatingInfo_get_at(Current2, ConsideredLen - 1)
       \/ Current1.rating < Current2.rating /\ RatingInfo_get_at(Current1, ConsideredLen - 1) > RatingInfo_get_at(Current2, ConsideredLen - 1)

\* C35: no assertion of combined_maximum_of_dual_iterators fails.  When the
\* two current segments cross inside the span next() is about to consider,
\* spoint = div_by_delta_to_i64(r2 - r1, d1 - d2) + 1 has 0 < spoint < len,
\* the segment that is lower at the first point of the span is at most the
\* other one on the first spoint points and strictly above it at the next
\* one; and the span is split exactly there: the segment returned carries the
\* data of the input that starts above, the one stored for the next call the
\* data of the other input from the switch point on.
C35_SwitchPointInsideSpan ==
    /\ pc # "panic"
    /\ Crossing =>
        LET spoint == div_by_delta_to_i64(Current2.rating - Current1.rating, Current1.delta - Current2.delta) + 1
            lower == IF Current1.rating < Current2.rating THEN Current1 ELSE Current2
            upper == IF Current1.rating < Current2.rating THEN Current2 ELSE Current1
        IN  /\ 0 < spoint /\ spoint < ConsideredLen
            /\ \A k \in 0 .. (spoint - 1) : RatingInfo_get_at(lower, k) <= RatingInfo_get_at(upper, k)
            /\ RatingInfo_get_at(lower, spoint) > RatingInfo_get_at(upper, spoint)
    /\ pc = "iter" /\ iter[1].stored_segment # None =>
        LET first == out[Len(out)]
            stored == iter[1].stored_segment[1]
            above == IF DualRatingAt(sig1, first.span.start) > DualRatingAt(sig2[1], first.span.start) THEN sig1 ELSE sig2[1]
            below == IF DualRatingAt(sig1, first.span.start) > DualRatingAt(sig2[1], first.span.start) THEN sig2[1] ELSE sig1
        IN  /\ first.span.start < first.span.end /\ first.span.end = stored.span.start /\ stored.span.start < stored.span.end
            /\ DualRatingAt(above, first.span.start) > DualRatingAt(below, first.span.start)
            /\ \A t \in Points(first) : DualRatingAt(below, t) <= DualRatingAt(above, t) /\ FullDataAt(first, t) = DualDataAt(above, t)
            /\ DualRatingAt(below, stored.span.start) > DualRatingAt(above, stored.span.start)
            /\ \A t \in Points(stored) : FullDataAt(stored, t) = DualDataAt(below, t)

\* two segments that meet between the second and the third point of a span of
\* four points have been split after the second point
C35_Witness ==
    /\ pc = "iter" /\ iter[1].stored_segment # None
    /\ PointSpan_len(out[Len(out)].span) = 2 /\ PointSpan_len(iter[1].stored_segment[1].span) = 2
    /\ DualRatingAt(sig1, out[Len(out)].span.end - 1) # DualRatingAt(sig2[1], out[Len(out)].span.end - 1)
    /\ Len(sig1.buffer) = 1

----------------------------------------------------------------------------
(* add_ratings_from on a dual input whose segments each carry an offset of  *)
(* their own                                                                 *)

InitAddOffsets ==
    /\ \E len \in 1 .. MaxLen : \E n1 \in 1 .. Min(MaxPairSegs, len), n2 \in 1 .. Min(MaxPairSegs, len) :
         \E e1 \in EndSeqs(0, len, n1), e2 \in EndSeqs(0, len, n2), d1 \in [1 .. n1 -> [offset_info : SignedOffsetInfos, rating_info : {RatingInfo_constant(0), [rating |-> 1, delta |-> -1]}]], d2 \in [1 .. n2 -> RatingInfos] :
            TwoInputs(Signal(0, e1, d1), Signal(0, e2, d2))
    /\ epsilon = 0
    /\ Fresh

SpecAddOffsets == InitAddOffsets /\ [][NextAdd]_vars

\* C36: every segment add_ratings_from returns carries, at every point t of
\* its span, the offset the dual input carries at t, and drags exactly when
\* the dual input's segment at t drags; the current segment of the dual input
\* the iterator holds carries the data of the dual input at segment_start,
\* also after the rating input's segment ended first and the dual segment was
\* advanced.  No run panics, and the segments of an exhausted run tile
\* [start, end).
C36_AddCarriesOffsets ==
    /\ pc # "panic"
    /\ \A i \in DOMAIN out : \A t \in Points(out[i]) :
        /\ FullOffset(out[i], t) = DualOffsetAt(sig1, t)
        /\ out[i].data.offset_info.drag = sig1.buffer[SegAt(sig1.start, sig1.buffer, t)].data.offset_info.drag
    /\ pc = "iter" /\ ~iter[1].finished => iter[1].dual_seg1.data = DualDataAt(sig1, iter[1].segment_start)
    /\ pc = "done" => Tiles(out, sig1.start, SignalEnd(sig1))

\* an exhausted run in which a dragging segment of the dual input was split
\* by a segment end of the rating input, and went on from the advanced offset
C36_Witness ==
    /\ pc = "done" /\ Len(sig1.buffer) = 1 /\ Len(sig2[1].buffer) = 2 /\ Len(out) = 2
    /\ sig1.buffer[1].data.offset_info.drag
    /\ out[2].data.offset_info.offset = sig1.buffer[1].data.offset_info.offset + PointSpan_len(out[1].span)
    /\ PointSpan_len(out[1].span) = 2

----------------------------------------------------------------------------
(* The calls extract_audio_stream makes on the receiver around the end *)

\* the receiver's finish() has been called
FinishCalled == receiver # <<>> /\ receiver[Len(receiver)].op = "finish"

\* C37: finish() of the receiver is called at most once and as the last call
\* of the receiver; when it is called the whole stream has been read, wait()
\* has returned the exit code 0, every pair of bytes of the stream has been
\* pushed as a sample and every push returned Ok.  A call of the receiver that
\* returned Err is the last call of the receiver and the run returns an
\* error; a run that returns an error has not called finish(), unless the
\* error is the Err of finish() itself, and a run that succeeds has called it.
C37_FinishOnlyOnSuccess ==
    /\ \A i \in DOMAIN receiver :
        /\ receiver[i].op = "finish" => i = Len(receiver)
        /\ ~receiver[i].ok => i = Len(receiver) /\ DecodeReturned /\ ret[1].kind # "Ok"
    /\ FinishCalled =>
        /\ child # None /\ child[1].read = Len(env.stdout) /\ child[1].wait = "Ok" /\ child[1].code = Some(0)
        /\ Len(receiver) = Len(env.stdout) \div 2 + 2
        /\ \A j \in 1 .. (Len(receiver) - 1) : receiver[j].op = "push_samples" /\ receiver[j].ok /\ (SamplePush(j) <=> j <= Len(env.stdout) \div 2)
        /\ DecodeReturned
    /\ DecodeReturned /\ ret[1].kind # "Ok" => ~FinishCalled \/ ~receiver[Len(receiver)].ok
    /\ DecodeReturned /\ ret[1].kind = "Ok" => FinishCalled /\ receiver[Len(receiver)].ok

\* a run that has read the whole stream of one sample and an odd byte and
\* returned an error without a call of finish(): the decode process did not
\* exit with 0
C37_Witness ==
    /\ DecodeReturned /\ ret[1].kind # "Ok" /\ ~FinishCalled
    /\ Len(env.stdout) = 3 /\ Len(receiver) = 1
    /\ child # None /\ child[1].read = 3 /\ child[1].wait = "Ok" /\ child[1].code # Some(0)

----------------------------------------------------------------------------
(* DifferentialRatingBufferBuilder and DifferentialRatingBuffer.  sig1 is    *)
(* what the caller does with the builder: new(start, end), add_segment for   *)
(* each entry of sig1.buffer (its end_point and delta-delta), extend_to_end  *)
(* when sig1.extend, build, then into_rating_iter run to its end.            *)

\* most calls of add_segment
MaxAdds == 3

\* new(): the builder, or the assertion that failed
DifferentialRatingBufferBuilder_new(start, end) ==
    IF ~(start < end) THEN [self |-> None, panic |-> "assertion failed: start < end"]
    ELSE [self |-> Some([start |-> start, end |-> end, buffer |-> <<>>]), panic |-> ""]

\* (an add_segment that always starts a new segment)
DifferentialRatingBufferBuilder_add_segment_apart(self, segment_end, segment_end_delta_delta) ==
    [self |-> [self EXCEPT !.buffer = Append(@, [end_point |-> segment_end, data |-> segment_end_delta_delta])], panic |-> ""]

DifferentialRatingBufferBuilder_add_segment(self, segment_end, segment_end_delta_delta) ==
    IF self.buffer # <<>> /\ ~(self.buffer[Len(self.buffer)].end_point <= segment_end) THEN [self |-> self, panic |-> "assertion failed: last_segment.end_point <= segment_end"]
    ELSE IF self.buffer # <<>> /\ self.buffer[Len(self.buffer)].end_point = segment_end THEN
        [self |-> [self EXCEPT !.buffer[Len(self.buffer)].data = @ + segment_end_delta_delta], panic |-> ""]
    ELSE IF self.buffer = <<>> /\ ~(self.start < segment_end) THEN [self |-> self, panic |-> "assertion failed: self.start < segment_end"]
    ELSE [self |-> [self EXCEPT !.buffer = Append(@, [end_point |-> segment_end, data |-> segment_end_delta_delta])], panic |-> ""]

DifferentialRatingBufferBuilder_extend_to_end(self) == DifferentialRatingBufferBuilder_add_segment(self, self.end, 0)

DifferentialRatingBufferBuilder_build(self) == [start |-> self.start, buffer |-> self.buffer]

\* into_rating_iter: the state the scan starts from, and its closure
into_rating_iter(self) == [rating |-> 0, delta |-> 0, last_segment_end |-> self.start]
into_rating_iter_closure(state, segment) ==
    [state |-> [rating |-> add_mul(state.rating, state.delta, segment.end_point - state.last_segment_end),
                delta |-> state.delta + segment.data,
                last_segment_end |-> segment.end_point],
     item |-> Some([end_point |-> segment.end_point, data |-> [rating |-> state.rating, delta |-> state.delta]]),
     panic |-> ""]

InitDifferential ==
    /\ \E start \in Starts, len \in 0 .. MaxLen, n \in 0 .. MaxAdds, extend \in BOOLEAN :
         \E calls \in [1 .. n -> [end_point : start .. (start + MaxLen), data : Deltas]] :
            sig1 = [start |-> start, end |-> start + len, buffer |-> calls, extend |-> extend]
    /\ sig2 = None /\ input_iter1 = sig1.buffer /\ input_iter2 = <<>>
    /\ epsilon = 0
    /\ Fresh

\* DifferentialRatingBufferBuilder::new
DifferentialNew ==
    /\ pc = "start"
    /\ LET r == DifferentialRatingBufferBuilder_new(sig1.start, sig1.end)
       IN  /\ iter' = r.self
           /\ panic' = r.panic
           /\ pc' = IF r.panic # "" THEN "panic" ELSE "build"
    /\ UNCHANGED <<decoder_vars, sig1, sig2, epsilon, input_iter1, input_iter2, out, ret>>

\* the next add_segment of the caller
DifferentialAddSegment ==
    /\ pc = "build" /\ input_iter1 # <<>>
    /\ LET r == DifferentialRatingBufferBuilder_add_segment(iter[1], Head(input_iter1).end_point, Head(input_iter1).data)
       IN  /\ iter' = Some(r.self)
           /\ panic' = r.panic
           /\ pc' = IF r.panic # "" THEN "panic" ELSE "build"
    /\ input_iter1' = Tail(input_iter1)
    /\ UNCHANGED <<decoder_vars, sig1, sig2, epsilon, input_iter2, out, ret>>

\* extend_to_end() when the caller calls it, build() and into_rating_iter():
\* ret is the buffer built, input_iter1 the iterator over its segments
DifferentialBuild ==
    /\ pc = "build" /\ input_iter1 = <<>>
    /\ LET r == IF sig1.extend THEN DifferentialRatingBufferBuilder_extend_to_end(iter[1]) ELSE [self |-> iter[1], panic |-> ""]
       IN  /\ panic' = r.panic
           /\ pc' = IF r.panic # "" THEN "panic" ELSE "iter"
           /\ ret' = IF r.panic # "" THEN None ELSE Some(DifferentialRatingBufferBuilder_build(r.self))
           /\ iter' = IF r.panic # "" THEN Some(r.self) ELSE Some(into_rating_iter(DifferentialRatingBufferBuilder_build(r.self)))
           /\ input_iter1' = IF r.panic # "" THEN input_iter1 ELSE r.self.buffer
    /\ UNCHANGED <<decoder_vars, sig1, sig2, epsilon, input_iter2, out>>

\* next() of the iterator into_rating_iter returns
DifferentialNext ==
    /\ pc = "iter"
    /\ LET r == IF input_iter1 = <<>> THEN [state |-> iter[1], item |-> None, panic |-> ""] ELSE into_rating_iter_closure(iter[1], Head(input_iter1))
       IN  /\ iter' = Some(r.state)
           /\ Returned(r)
    /\ input_iter1' = IterRest(input_iter1)
    /\ UNCHANGED <<decoder_vars, sig1, sig2, epsilon, input_iter2, ret>>

NextDifferential == DifferentialNew \/ DifferentialAddSegment \/ DifferentialBuild \/ DifferentialNext

SpecDifferential == InitDifferential /\ [][NextDifferential]_vars

\* the calls of add_segment made so far, that of extend_to_end included
AddSegmentCalls ==
    IF pc \in {"iter", "done"} THEN sig1.buffer \o (IF sig1.extend THEN <<[end_point |-> sig1.end, data |-> 0]>> ELSE <<>>)
    ELSE SubSeq(sig1.buffer, 1, Len(sig1.buffer) - Len(input_iter1))

RECURSIVE DeltaDeltaSum(_, _)
\* the sum of the delta-deltas of the first k entries of segments
DeltaDeltaSum(segments, k) == IF k = 0 THEN 0 ELSE DeltaDeltaSum(segments, k - 1) + segments[k].data

RECURSIVE DeltaDeltaSumAt(_, _, _)
\* the sum of the delta-deltas of those of the first k calls that name the end point e
DeltaDeltaSumAt(calls, k, e) == IF k = 0 THEN 0 ELSE DeltaDeltaSumAt(calls, k - 1, e) + (IF calls[k].end_point = e THEN calls[k].data ELSE 0)

\* the segments stored: those of the builder, then those of the buffer built
Stored == IF pc = "build" THEN iter[1].buffer ELSE ret[1].buffer

\* C38: as long as no assertion of the builder has failed, the end points
\* stored are strictly increasing and greater than start, they are the end
\* points add_segment was called with, and each carries the sum of the
\* delta-deltas of the calls for its end point.  The rating segments
\* into_rating_iter returns have the end points of the buffer; the first has
\* rating 0 and delta 0, each has as its delta the sum of the delta-deltas
\* stored for all earlier segments and as its rating what the one before it
\* reaches at its exclusive end.
C38_DifferentialRatingBuffer ==
    pc \in {"build", "iter", "done"} =>
        /\ \A i \in DOMAIN Stored : Stored[i].end_point > (IF i = 1 THEN sig1.start ELSE Stored[i - 1].end_point)
        /\ {Stored[i].end_point : i \in DOMAIN Stored} = {AddSegmentCalls[k].end_point : k \in DOMAIN AddSegmentCalls}
        /\ \A i \in DOMAIN Stored : Stored[i].data = DeltaDeltaSumAt(AddSegmentCalls, Len(AddSegmentCalls), Stored[i].end_point)
        /\ pc # "build" =>
            /\ Len(out) <= Len(Stored) /\ (pc = "done" => Len(out) = Len(Stored))
            /\ \A i \in DOMAIN out :
                /\ out[i].end_point = Stored[i].end_point
                /\ i = 1 => out[i].data = [rating |-> 0, delta |-> 0]
                /\ out[i].data.delta = DeltaDeltaSum(Stored, i - 1)
                /\ i > 1 => out[i].data.rating = out[i - 1].data.rating + out[i - 1].data.delta * (out[i - 1].end_point - (IF i = 2 THEN sig1.start ELSE out[i - 2].end_point))

\* an exhausted iterator over a buffer of two segments, the first of them
\* merged from two calls, whose second segment starts above zero
C38_Witness ==
    /\ pc = "done" /\ Len(out) = 2 /\ Len(sig1.buffer) = 3
    /\ sig1.buffer[1].end_point = sig1.buffer[2].end_point
    /\ out[2].data.delta > 1

----------------------------------------------------------------------------
(* ChunkedAudioReceiver: filled after a call of push_samples *)

\* C39: with a window of at least one sample, after every call of
\* push_samples that has returned, Ok or Err, 0 <= filled < W, and no call of
\* push_samples fails its entry assertion.
C39_FilledBelowWindow ==
    iter # None /\ Window >= 1 =>
        /\ 0 <= iter[1].filled /\ iter[1].filled < Window
        /\ pc # "panic"

----------------------------------------------------------------------------
(* The failures of decode before it starts the decode process *)

\* no stream of the metadata is an audio stream with channels, of the index
\* asked for when one is asked for
NoMatchingStream ==
    \A i \in DOMAIN env.probe.metadata.streams :
        LET s == env.probe.metadata.streams[i]
        IN  ~(s.codec_type = "Audio" /\ s.channels # None /\ (env.audio_index = None \/ s.index = env.audio_index[1]))

\* the duration decode would take for the stream it has chosen
ChosenDuration ==
    LET format == env.probe.metadata.format
    IN  IF iter[1].best_stream[1].duration # None THEN iter[1].best_stream[1].duration
        ELSE IF format # None THEN format[1].duration
        ELSE None

\* C40: a run of decode in which the metadata cannot be extracted, no audio
\* stream matches, or the duration is missing or does not parse returns the
\* error of that failure (ExtractingMetadataFailed, NoAudioStream,
\* NoDurationInformation, FailedToParseDuration), and a run that returns one
\* of these errors has not spawned the decode process and has called no
\* method of the receiver and none of the progress handler.
C40_EarlyFailuresCallNothing ==
    /\ DecodeReturned /\ ret[1].kind \in EarlyErrors => child = None /\ receiver = <<>> /\ progress = <<>>
    /\ env # None /\ pc # "start" =>
        /\ ~get_metadata(env.probe).ok => DecodeReturned /\ ret[1].kind = "ExtractingMetadataFailed"
        /\ get_metadata(env.probe).ok /\ NoMatchingStream => DecodeReturned /\ ret[1].kind = "NoAudioStream"
        /\ get_metadata(env.probe).ok /\ ~NoMatchingStream =>
            /\ iter[1].best_stream # None
            /\ ChosenDuration = None => DecodeReturned /\ ret[1].kind = "NoDurationInformation"
            /\ ChosenDuration # None /\ parse_f64(ChosenDuration[1]) = None => DecodeReturned /\ ret[1].kind = "FailedToParseDuration"

\* a run that found its audio stream and a duration that does not parse, and
\* returned without a call
C40_Witness ==
    /\ DecodeReturned /\ ret[1].kind = "FailedToParseDuration"
    /\ iter[1].best_stream # None /\ Len(env.probe.metadata.streams) = 2
    /\ child = None /\ receiver = <<>> /\ progress = <<>>

====
